---- MODULE Spec2Model ----
(***************************************************************************)
(* A model of the training control of causal-poset-discovery:              *)
(*   - PhaseChangerCallback (ocd/training/callbacks/phase_changer.py), the  *)
(*     maximization/expectation phase state machine driven by Lightning     *)
(*     callback events;                                                     *)
(*   - Trainer (ocd/training/trainer.py), the alternating flow/permutation  *)
(*     optimisation loop.                                                   *)
(* Losses are exact rationals on an integer grid (one grid unit stands for  *)
(* the threshold unit 1e-4); float("inf") is a tagged value.                *)
(***************************************************************************)
EXTENDS Integers, Sequences, FiniteSets, TLC

\* ------------------------------------------------------------------ bounds
MaxEpochLimit == 2
MaxPatience == 2
MaxLoss == 2
MaxCheckEvery == 2
MaxValBatches == 2
MaxMaxEpochs == 3
MaxFrequency == 2
MaxBatches == 2
MaxEpochs == 6
MaxChecks == 8
MaxTemperature == 2
MaxSamples == 3

Phases == {"maximization", "expectation"}
Losses == 0..MaxLoss

\* ------------------------------------------------- extended rational numbers
RECURSIVE GCD(_, _)
GCD(a, b) == IF b = 0 THEN a ELSE GCD(b, a % b)

Abs(n) == IF n < 0 THEN -n ELSE n

\* the finite number n/d (d > 0) in lowest terms
Rat(n, d) ==
    LET g == GCD(Abs(n), d)
    IN  [inf |-> FALSE, num |-> n \div g, den |-> d \div g]

\* float("inf")
Infinity == [inf |-> TRUE, num |-> 0, den |-> 1]

\* x - e and x + e for an integer e (inf -/+ e = inf)
Minus(x, e) == IF x.inf THEN x ELSE Rat(x.num - e * x.den, x.den)
Plus(x, e) == IF x.inf THEN x ELSE Rat(x.num + e * x.den, x.den)

\* a < x and a <= x for a finite a
Less(a, x) == x.inf \/ a.num * x.den < x.num * a.den
LessEq(a, x) == x.inf \/ a.num * x.den <= x.num * a.den

\* min(x, a) for a finite a
Min(x, a) == IF Less(a, x) THEN a ELSE x

\* (avg * batch_idx + loss) / (batch_idx + 1)
RunningAvg(avg, batch_idx, loss) ==
    Rat(avg.num * batch_idx + loss * avg.den, avg.den * (batch_idx + 1))

\* --------------------------------------------------------------- variables
VARIABLES
    cfg,                                \* the constructor arguments of the callback
    stage,                              \* "constructed", "fitting" or "raised"
    current_phase,                      \* pl_module.current_phase
    training_iteration_counter,
    epochs_on_maximization,
    epochs_on_expectation,
    training_loss_patience_remaining,
    running_minimum_training_loss,
    generalization_patience_remaining,
    running_minimum_validation_loss,
    validation_running_avg,
    num_validation_batches,
    val_batch_idx,                      \* batch_idx of the next validation batch of the running pass
    trigger,                            \* why the last callback called change_phase, or "none"
    module_calls                        \* the calls the last callback made on pl_module

pcVars == <<cfg, stage, current_phase, training_iteration_counter,
            epochs_on_maximization, epochs_on_expectation,
            training_loss_patience_remaining, running_minimum_training_loss,
            generalization_patience_remaining, running_minimum_validation_loss,
            validation_running_avg, num_validation_batches, val_batch_idx,
            trigger, module_calls>>

VARIABLES
    tcfg,                   \* the constructor arguments of the Trainer
    pc,                     \* the place Trainer.train() has reached
    error,                  \* the exception that left train(), or "none"
    true_epochs,
    epoch,
    temperature,            \* the last value get_temperature(epoch) returned in train()
    flow_iter,              \* the next value of range(flow_frequency)
    perm_iter,              \* the next value of range(permutation_frequency), j
    i_bound,                \* whether the local name i of train() is bound
    batch,                  \* batches of the running dataloader pass done so far
    gamma_requires_grad,    \* permutation_learning_module._gamma.requires_grad
    flow_requires_grad,     \* requires_grad of every parameter of self.model
    model_training,         \* self.model.training
    flow_step_count,
    perm_step_count,
    epochs_run,             \* outer epochs whose body was entered
    steps_this_epoch,       \* the steps called in the last outer epoch entered, in order
    diagnostics             \* what was logged after the last step that returned

trVars == <<tcfg, pc, error, true_epochs, epoch, temperature, flow_iter, perm_iter, i_bound, batch,
            gamma_requires_grad, flow_requires_grad, model_training,
            flow_step_count, perm_step_count, epochs_run, steps_this_epoch,
            diagnostics>>

\* the functions that keep no state of their own
VARIABLES
    call                    \* the last call made: the function, its arguments and its result

fnVars == <<call>>

\* ExplorabilityCallback, the module it watches and the logger it writes to
VARIABLES
    xcfg,                       \* the constructor arguments
    last_saved_phase,
    log_every_n_epochs_counter,
    logged_permutations,        \* the log of the model: the epochs it holds permutations of
    image,                      \* the last image handed to the logger
    explorability_error,        \* the exception that left on_train_epoch_end, or "none"
    current_epoch,              \* pl_module.current_epoch
    logged_this_phase,          \* remembered: the epochs logged since the last phase change
    logged_ended_phase          \* remembered: the epochs logged in the phase before

exVars == <<xcfg, last_saved_phase, log_every_n_epochs_counter, logged_permutations,
            image, explorability_error, current_epoch, logged_this_phase,
            logged_ended_phase>>

\* what the properties remember of a run; no operation of the program reads it
VARIABLES
    hist

vars == <<pcVars, trVars, fnVars, exVars, hist>>

\* ------------------------------------------------ PhaseChangerCallback.__init__
\* Losses are measured in units of the threshold eps, so eps is one grid unit.
ThresholdEps == {1}

\* The settings of a trigger that is switched off are never compared with
\* anything, so they are drawn only when the trigger is on.
LossConvergenceOff ==
    [loss_convergence_early_stopping : {FALSE},
     check_every_n_iterations : {1},
     loss_convergence_patience : {1},
     loss_convergence_threshold_eps : ThresholdEps]

LossConvergenceOn(patiences) ==
    [loss_convergence_early_stopping : {TRUE},
     check_every_n_iterations : 1..MaxCheckEvery,
     loss_convergence_patience : patiences,
     loss_convergence_threshold_eps : ThresholdEps]

GeneralizationOff ==
    [generalization_early_stopping : {{}},
     generalization_patience : {1},
     generalization_threshold_eps : ThresholdEps]

GeneralizationOn(patiences) ==
    [generalization_early_stopping : (SUBSET Phases) \ {{}},
     generalization_patience : patiences,
     generalization_threshold_eps : ThresholdEps]

EpochSettings(reset_flags, reinitialize_flags) ==
    [starting_phase : Phases,
     maximization_epoch_limit : 1..MaxEpochLimit,
     expectation_epoch_limit : 1..MaxEpochLimit,
     reset_optimizers : reset_flags,
     reinitialize_weights_on_maximization : reinitialize_flags]

\* the constructor arguments, lines 28-48
Configs(epoch_settings, loss_settings, generalization_settings) ==
    {[starting_phase |-> o.starting_phase,
      maximization_epoch_limit |-> o.maximization_epoch_limit,
      expectation_epoch_limit |-> o.expectation_epoch_limit,
      check_every_n_iterations |-> l.check_every_n_iterations,
      loss_convergence_early_stopping |-> l.loss_convergence_early_stopping,
      loss_convergence_patience |-> l.loss_convergence_patience,
      loss_convergence_threshold_eps |-> l.loss_convergence_threshold_eps,
      generalization_early_stopping |-> g.generalization_early_stopping,
      generalization_patience |-> g.generalization_patience,
      generalization_threshold_eps |-> g.generalization_threshold_eps,
      reset_optimizers |-> o.reset_optimizers,
      reinitialize_weights_on_maximization |-> o.reinitialize_weights_on_maximization] :
        o \in epoch_settings, l \in loss_settings, g \in generalization_settings}

\* the default arguments, lines 30-47
DefaultConfig ==
    [starting_phase |-> "maximization",
     maximization_epoch_limit |-> 10,
     expectation_epoch_limit |-> 10,
     check_every_n_iterations |-> 1,
     loss_convergence_early_stopping |-> FALSE,
     loss_convergence_patience |-> 5,
     loss_convergence_threshold_eps |-> 1,
     generalization_early_stopping |-> {"maximization"},
     generalization_patience |-> 5,
     generalization_threshold_eps |-> 1,
     reset_optimizers |-> TRUE,
     reinitialize_weights_on_maximization |-> FALSE]

\* the state __init__ leaves, lines 49-78
PhaseChangerInit(configs) ==
    /\ cfg \in configs
    /\ stage = "constructed"
    /\ current_phase = "unset"
    /\ training_iteration_counter = 0
    /\ epochs_on_maximization = 0
    /\ epochs_on_expectation = 0
    /\ training_loss_patience_remaining = cfg.loss_convergence_patience
    /\ running_minimum_training_loss = Infinity
    /\ generalization_patience_remaining = cfg.generalization_patience
    /\ running_minimum_validation_loss = Infinity
    /\ validation_running_avg = Rat(0, 1)
    /\ num_validation_batches = 0
    /\ val_batch_idx = 0
    /\ trigger = "none"
    /\ module_calls = <<>>

\* ------------------------------------------------------------- change_phase
\* the elif branch of lines 85-86 left out
OtherPhase_NoWayBack(p) ==
    IF p = "maximization" THEN "expectation" ELSE p

OtherPhase(p) ==
    IF p = "maximization" THEN "expectation"
    ELSE IF p = "expectation" THEN "maximization"
    ELSE p

\* lines 100-101
ResetOptimizerCalls ==
    IF cfg.reset_optimizers THEN <<"reset_optimizers">> ELSE <<>>

\* the phase test of line 103 left out
ReinitializeCalls_AnyPhase(new_phase) ==
    IF cfg.reinitialize_weights_on_maximization
    THEN <<"reinitialize_flow_weights">> ELSE <<>>

\* lines 103-104
ReinitializeCalls(new_phase) ==
    IF cfg.reinitialize_weights_on_maximization /\ new_phase = "maximization"
    THEN <<"reinitialize_flow_weights">> ELSE <<>>

\* line 98 left out: the running minimum of the validation loss is kept
change_phase_KeepsValidationMinimum(why) ==
    /\ current_phase' = OtherPhase(current_phase)
    /\ epochs_on_expectation' = 0
    /\ epochs_on_maximization' = 0
    /\ training_loss_patience_remaining' = cfg.loss_convergence_patience
    /\ running_minimum_training_loss' = Infinity
    /\ generalization_patience_remaining' = cfg.generalization_patience
    /\ running_minimum_validation_loss' = running_minimum_validation_loss
    /\ module_calls' = ResetOptimizerCalls \o ReinitializeCalls(OtherPhase(current_phase))
    /\ trigger' = why

\* lines 80-104; `why` names the caller
change_phase(why) ==
    /\ current_phase' = OtherPhase(current_phase)
    /\ epochs_on_expectation' = 0
    /\ epochs_on_maximization' = 0
    /\ training_loss_patience_remaining' = cfg.loss_convergence_patience
    /\ running_minimum_training_loss' = Infinity
    /\ generalization_patience_remaining' = cfg.generalization_patience
    /\ running_minimum_validation_loss' = Infinity
    /\ module_calls' = ResetOptimizerCalls \o ReinitializeCalls(OtherPhase(current_phase))
    /\ trigger' = why

NoChange ==
    /\ trigger' = "none"
    /\ module_calls' = <<>>

\* ------------------------------------------------------------- on_fit_start
on_fit_start ==
    /\ stage = "constructed"
    /\ stage' = "fitting"
    /\ current_phase' = cfg.starting_phase
    /\ NoChange
    /\ UNCHANGED <<cfg, training_iteration_counter, epochs_on_maximization,
                   epochs_on_expectation, training_loss_patience_remaining,
                   running_minimum_training_loss, generalization_patience_remaining,
                   running_minimum_validation_loss, validation_running_avg,
                   num_validation_batches, val_batch_idx>>

\* ------------------------------------------------------- on_train_epoch_end
\* the limit compared with > instead of ==
EpochLimitReached_Late(epochs, limit) == epochs > limit

EpochLimitReached(epochs, limit) == epochs = limit

on_train_epoch_end ==
    /\ stage = "fitting"
    /\ val_batch_idx = 0
    /\ IF current_phase = "maximization"
       THEN IF EpochLimitReached(epochs_on_maximization + 1, cfg.maximization_epoch_limit)
            THEN change_phase("epoch_limit")
            ELSE /\ epochs_on_maximization' = epochs_on_maximization + 1
                 /\ NoChange
                 /\ UNCHANGED <<current_phase, epochs_on_expectation,
                                training_loss_patience_remaining,
                                running_minimum_training_loss,
                                generalization_patience_remaining,
                                running_minimum_validation_loss>>
       ELSE IF EpochLimitReached(epochs_on_expectation + 1, cfg.expectation_epoch_limit)
            THEN change_phase("epoch_limit")
            ELSE /\ epochs_on_expectation' = epochs_on_expectation + 1
                 /\ NoChange
                 /\ UNCHANGED <<current_phase, epochs_on_maximization,
                                training_loss_patience_remaining,
                                running_minimum_training_loss,
                                generalization_patience_remaining,
                                running_minimum_validation_loss>>
    /\ UNCHANGED <<cfg, stage, training_iteration_counter, validation_running_avg,
                   num_validation_batches, val_batch_idx>>

\* ------------------------------------------------------- on_train_batch_end
\* the patience compared with < 0 instead of == 0
PatienceExhausted_Late(remaining) == remaining < 0

\* lines 160 and 201
PatienceExhausted(remaining) == remaining = 0

\* the comparison of the validation check (line 195) used for the training loss
TrainingLossImproved_PlusEps(current_loss, running_min, eps) ==
    LessEq(current_loss, Plus(running_min, eps))

TrainingLossImproved(current_loss, running_min, eps) ==
    Less(current_loss, Minus(running_min, eps))

\* self.training_iteration_counter += 1.  The counter is read only modulo
\* check_every_n_iterations (line 143), and it is kept modulo that number so
\* that a run of any length stays within finitely many states.
CountIteration(counter) == (counter + 1) % cfg.check_every_n_iterations

\* the check made one iteration late
CheckDue_Late(counter) == counter % cfg.check_every_n_iterations = 1 % cfg.check_every_n_iterations

CheckDue(counter) == counter % cfg.check_every_n_iterations = 0

\* on_train_batch_end counting the batch before the early return
TrainBatchSkipped_Counted ==
    /\ stage = "fitting"
    /\ val_batch_idx = 0
    /\ ~cfg.loss_convergence_early_stopping \/ current_phase = "expectation"
    /\ training_iteration_counter' = CountIteration(training_iteration_counter)
    /\ NoChange
    /\ UNCHANGED <<cfg, stage, current_phase,
                   epochs_on_maximization, epochs_on_expectation,
                   training_loss_patience_remaining, running_minimum_training_loss,
                   generalization_patience_remaining, running_minimum_validation_loss,
                   validation_running_avg, num_validation_batches, val_batch_idx>>

\* line 139-140: the early return
TrainBatchSkipped ==
    /\ stage = "fitting"
    /\ val_batch_idx = 0
    /\ ~cfg.loss_convergence_early_stopping \/ current_phase = "expectation"
    /\ NoChange
    /\ UNCHANGED <<cfg, stage, current_phase, training_iteration_counter,
                   epochs_on_maximization, epochs_on_expectation,
                   training_loss_patience_remaining, running_minimum_training_loss,
                   generalization_patience_remaining, running_minimum_validation_loss,
                   validation_running_avg, num_validation_batches, val_batch_idx>>

\* line 141-144: counted, but no check is due
TrainBatchNotDue ==
    /\ stage = "fitting"
    /\ val_batch_idx = 0
    /\ cfg.loss_convergence_early_stopping /\ current_phase # "expectation"
    /\ training_iteration_counter' = CountIteration(training_iteration_counter)
    /\ ~CheckDue(training_iteration_counter')
    /\ NoChange
    /\ UNCHANGED <<cfg, stage, current_phase,
                   epochs_on_maximization, epochs_on_expectation,
                   training_loss_patience_remaining, running_minimum_training_loss,
                   generalization_patience_remaining, running_minimum_validation_loss,
                   validation_running_avg, num_validation_batches, val_batch_idx>>

\* on_train_batch_end looking for the loss only after it has counted the check
\* against the patience
TrainBatchRaises_AfterDecrement ==
    /\ stage = "fitting"
    /\ val_batch_idx = 0
    /\ cfg.loss_convergence_early_stopping /\ current_phase # "expectation"
    /\ training_iteration_counter' = CountIteration(training_iteration_counter)
    /\ CheckDue(training_iteration_counter')
    /\ stage' = "raised"
    /\ training_loss_patience_remaining' = training_loss_patience_remaining - 1
    /\ NoChange
    /\ UNCHANGED <<cfg, current_phase,
                   epochs_on_maximization, epochs_on_expectation,
                   running_minimum_training_loss,
                   generalization_patience_remaining, running_minimum_validation_loss,
                   validation_running_avg, num_validation_batches, val_batch_idx>>

\* line 146-149: a check is due and the latched results hold no loss
TrainBatchRaises ==
    /\ stage = "fitting"
    /\ val_batch_idx = 0
    /\ cfg.loss_convergence_early_stopping /\ current_phase # "expectation"
    /\ training_iteration_counter' = CountIteration(training_iteration_counter)
    /\ CheckDue(training_iteration_counter')
    /\ stage' = "raised"
    /\ NoChange
    /\ UNCHANGED <<cfg, current_phase,
                   epochs_on_maximization, epochs_on_expectation,
                   training_loss_patience_remaining, running_minimum_training_loss,
                   generalization_patience_remaining, running_minimum_validation_loss,
                   validation_running_avg, num_validation_batches, val_batch_idx>>

\* line 151-163: the check
TrainBatchCheck(loss) ==
    /\ stage = "fitting"
    /\ val_batch_idx = 0
    /\ cfg.loss_convergence_early_stopping /\ current_phase # "expectation"
    /\ training_iteration_counter' = CountIteration(training_iteration_counter)
    /\ CheckDue(training_iteration_counter')
    /\ LET current_loss == Rat(loss, 1)
       IN  IF TrainingLossImproved(current_loss, running_minimum_training_loss,
                                   cfg.loss_convergence_threshold_eps)
           THEN /\ training_loss_patience_remaining' = cfg.loss_convergence_patience
                /\ running_minimum_training_loss' =
                       Min(running_minimum_training_loss, current_loss)
                /\ NoChange
                /\ UNCHANGED <<current_phase, epochs_on_maximization,
                               epochs_on_expectation,
                               generalization_patience_remaining,
                               running_minimum_validation_loss>>
           ELSE IF PatienceExhausted(training_loss_patience_remaining - 1)
                THEN change_phase("loss_convergence")
                ELSE /\ training_loss_patience_remaining' =
                            training_loss_patience_remaining - 1
                     /\ NoChange
                     /\ UNCHANGED <<current_phase, epochs_on_maximization,
                                    epochs_on_expectation,
                                    running_minimum_training_loss,
                                    generalization_patience_remaining,
                                    running_minimum_validation_loss>>
    /\ UNCHANGED <<cfg, stage, validation_running_avg, num_validation_batches,
                   val_batch_idx>>

on_train_batch_end ==
    \/ TrainBatchSkipped
    \/ TrainBatchNotDue
    \/ TrainBatchRaises
    \/ \E loss \in Losses : TrainBatchCheck(loss)

\* -------------------------------------------------- on_validation_batch_end
\* the comparison of the training check (line 154) used for the validation loss
ValidationLossImproved_MinusEps(current_loss, running_min, eps) ==
    Less(current_loss, Minus(running_min, eps))

ValidationLossImproved(current_loss, running_min, eps) ==
    LessEq(current_loss, Plus(running_min, eps))

\* the validation loop hands over batch_idx = 0, 1, ... and then ends the pass
NextValBatch(batch_idx, last) ==
    /\ batch_idx = val_batch_idx
    /\ ~last => batch_idx + 1 < MaxValBatches
    /\ val_batch_idx' = IF last THEN 0 ELSE batch_idx + 1

\* line 178-179: the early return
ValBatchSkipped(batch_idx, last) ==
    /\ stage = "fitting"
    /\ NextValBatch(batch_idx, last)
    /\ current_phase \notin cfg.generalization_early_stopping
    /\ NoChange
    /\ UNCHANGED <<cfg, stage, current_phase, training_iteration_counter,
                   epochs_on_maximization, epochs_on_expectation,
                   training_loss_patience_remaining, running_minimum_training_loss,
                   generalization_patience_remaining, running_minimum_validation_loss,
                   validation_running_avg, num_validation_batches>>

\* line 181-184: the latched results hold no loss
ValBatchRaises(batch_idx, last) ==
    /\ stage = "fitting"
    /\ NextValBatch(batch_idx, last)
    /\ current_phase \in cfg.generalization_early_stopping
    /\ stage' = "raised"
    /\ NoChange
    /\ UNCHANGED <<cfg, current_phase, training_iteration_counter,
                   epochs_on_maximization, epochs_on_expectation,
                   training_loss_patience_remaining, running_minimum_training_loss,
                   generalization_patience_remaining, running_minimum_validation_loss,
                   validation_running_avg, num_validation_batches>>

\* line 188-204: the running average and, on the batch that completes a pass as
\* long as the longest seen so far, the check
ValBatchCheck(batch_idx, last, loss) ==
    /\ stage = "fitting"
    /\ NextValBatch(batch_idx, last)
    /\ current_phase \in cfg.generalization_early_stopping
    /\ validation_running_avg' = RunningAvg(validation_running_avg, batch_idx, loss)
    /\ IF num_validation_batches < batch_idx + 1
       THEN /\ num_validation_batches' = batch_idx + 1
            /\ NoChange
            /\ UNCHANGED <<current_phase, epochs_on_maximization, epochs_on_expectation,
                           training_loss_patience_remaining,
                           running_minimum_training_loss,
                           generalization_patience_remaining,
                           running_minimum_validation_loss>>
       ELSE /\ UNCHANGED num_validation_batches
            /\ IF num_validation_batches = batch_idx + 1
               THEN LET current_loss == validation_running_avg'
                    IN  IF ValidationLossImproved(current_loss,
                                                  running_minimum_validation_loss,
                                                  cfg.generalization_threshold_eps)
                        THEN /\ generalization_patience_remaining' =
                                    cfg.generalization_patience
                             /\ running_minimum_validation_loss' =
                                    Min(running_minimum_validation_loss, current_loss)
                             /\ NoChange
                             /\ UNCHANGED <<current_phase, epochs_on_maximization,
                                            epochs_on_expectation,
                                            training_loss_patience_remaining,
                                            running_minimum_training_loss>>
                        ELSE IF PatienceExhausted(generalization_patience_remaining - 1)
                             THEN change_phase("generalization")
                             ELSE /\ generalization_patience_remaining' =
                                         generalization_patience_remaining - 1
                                  /\ NoChange
                                  /\ UNCHANGED <<current_phase, epochs_on_maximization,
                                                 epochs_on_expectation,
                                                 training_loss_patience_remaining,
                                                 running_minimum_training_loss,
                                                 running_minimum_validation_loss>>
               ELSE /\ NoChange
                    /\ UNCHANGED <<current_phase, epochs_on_maximization,
                                   epochs_on_expectation,
                                   training_loss_patience_remaining,
                                   running_minimum_training_loss,
                                   generalization_patience_remaining,
                                   running_minimum_validation_loss>>
    /\ UNCHANGED <<cfg, stage, training_iteration_counter>>

on_validation_batch_end ==
    \E batch_idx \in 0..(MaxValBatches - 1), last \in BOOLEAN :
        \/ ValBatchSkipped(batch_idx, last)
        \/ ValBatchRaises(batch_idx, last)
        \/ \E loss \in Losses : ValBatchCheck(batch_idx, last, loss)

\* ================================================================ Trainer
\* A temperature is the number scale * 0.1 ** decades, where scale and decades
\* are rationals, or None.
Temperature(scale, decades) == [defined |-> TRUE, scale |-> scale, decades |-> decades]

\* None: what a function returns that runs off its end; also the value of the
\* field before train() has computed a temperature
NoTemperature == [defined |-> FALSE, scale |-> Rat(0, 1), decades |-> Rat(0, 1)]

Schedulers == {"constant", "linear", "exponential"}

\* the ground-truth graph handed to the Trainer: the chain 0 -> 1 -> 2 over the
\* model.in_features = 3 variables
TrainerDags == {[nodes |-> 0..2, edges |-> {<<0, 1>>, <<1, 2>>}]}

\* the constructor arguments and the lengths of the two dataloaders; the method
\* is the one of GumbelTopK
TrainerConfigs(schedulers, birkhoff) ==
    [max_epochs : 0..MaxMaxEpochs,
     flow_frequency : 0..MaxFrequency,
     permutation_frequency : 0..MaxFrequency,
     flow_batches : 0..MaxBatches,
     perm_batches : 0..MaxBatches,
     temperature : 0..MaxTemperature,
     temperature_scheduler : schedulers,
     birkhoff : birkhoff,
     dag : TrainerDags,
     method : {"gumbel-top-k"}]

\* model.in_features and birkhoff_config (given or None, with its frequency)
NoBirkhoff == {[in_features |-> 3, given |-> FALSE, frequency |-> 1]}

\* the largest birkhoff_config.frequency
MaxBirkhoffFrequency == 3

\* a model of 4 or of 5 features, with and without a birkhoff_config
Birkhoffs ==
    [in_features : {4, 5}, given : BOOLEAN, frequency : 1..MaxBirkhoffFrequency]

\* the state Trainer.__init__ leaves, lines 99-120
TrainerInit(configs) ==
    /\ tcfg \in configs
    /\ pc = "start"
    /\ error = "none"
    /\ true_epochs = 0
    /\ epoch = 0
    /\ temperature = NoTemperature
    /\ flow_iter = 0
    /\ perm_iter = 0
    /\ i_bound = FALSE
    /\ batch = 0
    /\ gamma_requires_grad = TRUE
    /\ flow_requires_grad = TRUE
    /\ model_training = TRUE
    /\ flow_step_count = 0
    /\ perm_step_count = 0
    /\ epochs_run = 0
    /\ steps_this_epoch = <<>>
    /\ diagnostics = <<>>

\* an exception leaves the method of the Trainer that is running: nothing
\* catches it
Raise(name) ==
    /\ pc' = "raised"
    /\ error' = name

\* ---------------------------------------------------------- Trainer.__init__
\* lines 73-90: the method names and the class each one selects
ModuleClasses ==
    [x \in {"contrastive-divergence", "gumbel-top-k", "straight-through-sinkhorn",
            "soft-sort", "soft-sinkhorn"} |->
        CASE x = "contrastive-divergence" -> "ContrastiveDivergence"
          [] x = "gumbel-top-k" -> "GumbelTopK"
          [] x = "straight-through-sinkhorn" -> "GumbelSinkhornStraightThrough"
          [] x = "soft-sort" -> "SoftSort"
          [] x = "soft-sinkhorn" -> "SoftSinkhorn"]

\* a schedule name outside the Literal of lines 64-65
UnknownSchedulers == {"cosine"}

\* names that select no class
UnknownMethods == {"gumbel-sinkhorn", "GumbelTopK"}

\* lines 95-97: the names the message of the ValueError mentions
ValueErrorMessageNames ==
    {"GumbelSinkhornStraightThroughConfig", "ContrastiveDivergenceConfig"}

\* the state before Trainer.__init__ has run
TrainerNew(configs) ==
    /\ tcfg \in configs
    /\ pc = "new"
    /\ error = "none"
    /\ true_epochs = 0
    /\ epoch = 0
    /\ temperature = NoTemperature
    /\ flow_iter = 0
    /\ perm_iter = 0
    /\ i_bound = FALSE
    /\ batch = 0
    /\ gamma_requires_grad = TRUE
    /\ flow_requires_grad = TRUE
    /\ model_training = TRUE
    /\ flow_step_count = 0
    /\ perm_step_count = 0
    /\ epochs_run = 0
    /\ steps_this_epoch = <<>>
    /\ diagnostics = <<>>

\* lines 66-120 for a recognised method: the module and the two optimizers are
\* created and the step counts are zeroed
TrainerConstructed ==
    /\ pc = "new"
    /\ tcfg.method \in DOMAIN ModuleClasses
    /\ call' = [fn |-> "Trainer.__init__",
                raised |-> "none",
                message_names |-> {},
                permutation_learning_module |-> ModuleClasses[tcfg.method],
                optimizers |-> {"flow_optimizer", "permutation_optimizer"}]
    /\ perm_step_count' = 0
    /\ flow_step_count' = 0
    /\ pc' = "start"
    /\ UNCHANGED <<tcfg, temperature, error, true_epochs, epoch, flow_iter, perm_iter, i_bound,
                   batch, gamma_requires_grad, flow_requires_grad, model_training,
                   epochs_run, steps_this_epoch, diagnostics>>

\* lines 66-97 for any other method: the else branch raises
TrainerConstructRaises ==
    /\ pc = "new"
    /\ tcfg.method \notin DOMAIN ModuleClasses
    /\ call' = [fn |-> "Trainer.__init__",
                raised |-> "ValueError",
                message_names |-> ValueErrorMessageNames,
                permutation_learning_module |-> "none",
                optimizers |-> {}]
    /\ Raise("ValueError")
    /\ UNCHANGED <<tcfg, temperature, true_epochs, epoch, flow_iter, perm_iter, i_bound,
                   batch, gamma_requires_grad, flow_requires_grad, model_training,
                   flow_step_count, perm_step_count, epochs_run, steps_this_epoch,
                   diagnostics>>

\* --------------------------------------------------------- get_temperature
\* 1 - r for a rational r
OneMinus(r) == Rat(r.den - r.num, r.den)

\* a * b for an integer a and a rational b
Times(a, b) == Rat(a * b.num, b.den)

\* line 127 without the "1 -": the temperature grows from 0
get_temperature_Rising(e) ==
    IF tcfg.temperature_scheduler = "constant"
    THEN Temperature(Rat(tcfg.temperature, 1), Rat(0, 1))
    ELSE IF tcfg.temperature_scheduler = "linear"
    THEN Temperature(Times(tcfg.temperature, Rat(e, true_epochs - 1)), Rat(0, 1))
    ELSE IF tcfg.temperature_scheduler = "exponential"
    THEN Temperature(Rat(tcfg.temperature, 1), Rat(e, true_epochs - 1))
    ELSE NoTemperature

\* lines 122-129, for true_epochs - 1 # 0 wherever it is a divisor
get_temperature(e) ==
    IF tcfg.temperature_scheduler = "constant"
    THEN Temperature(Rat(tcfg.temperature, 1), Rat(0, 1))
    ELSE IF tcfg.temperature_scheduler = "linear"
    THEN Temperature(Times(tcfg.temperature, OneMinus(Rat(e, true_epochs - 1))), Rat(0, 1))
    ELSE IF tcfg.temperature_scheduler = "exponential"
    THEN Temperature(Rat(tcfg.temperature, 1), Rat(e, true_epochs - 1))
    ELSE NoTemperature

\* lines 122-129: whether get_temperature(epoch) divides by zero
TemperatureDividesByZero ==
    /\ tcfg.temperature_scheduler \in {"linear", "exponential"}
    /\ true_epochs - 1 = 0

\* ------------------------------------------------------------------- train
\* the + 1 of line 190 left out
TrueEpochs_NoExtraEpoch(max_epochs, flow_frequency, permutation_frequency) ==
    max_epochs \div (flow_frequency + permutation_frequency)

\* lines 188-191
TrueEpochs(max_epochs, flow_frequency, permutation_frequency) ==
    max_epochs \div (flow_frequency + permutation_frequency) + 1

\* lines 185-191
TrainBegin ==
    /\ pc = "start"
    /\ tcfg.flow_frequency + tcfg.permutation_frequency # 0
    /\ model_training' = TRUE
    /\ true_epochs' = TrueEpochs(tcfg.max_epochs, tcfg.flow_frequency,
                                 tcfg.permutation_frequency)
    /\ epoch' = 0
    /\ pc' = "epoch_head"
    /\ UNCHANGED <<tcfg, temperature, error, flow_iter, perm_iter, i_bound, batch,
                   gamma_requires_grad, flow_requires_grad, flow_step_count,
                   perm_step_count, epochs_run, steps_this_epoch, diagnostics>>

\* line 189: the integer division by flow_frequency + permutation_frequency = 0
TrainBeginDividesByZero ==
    /\ pc = "start"
    /\ tcfg.flow_frequency + tcfg.permutation_frequency = 0
    /\ model_training' = TRUE
    /\ Raise("ZeroDivisionError")
    /\ UNCHANGED <<tcfg, temperature, true_epochs, epoch, flow_iter, perm_iter, i_bound, batch,
                   gamma_requires_grad, flow_requires_grad, flow_step_count,
                   perm_step_count, epochs_run, steps_this_epoch, diagnostics>>

\* lines 192-199: the next outer epoch is entered; get_temperature(epoch) is
\* logged, and lines 201 and 214 hand the steps of the epoch the same value
EpochBegin ==
    /\ pc = "epoch_head"
    /\ epoch < true_epochs
    /\ ~TemperatureDividesByZero
    /\ epochs_run' = epochs_run + 1
    /\ steps_this_epoch' = <<>>
    /\ temperature' = get_temperature(epoch)
    /\ flow_iter' = 0
    /\ pc' = "flow_loop"
    /\ UNCHANGED <<tcfg, error, true_epochs, epoch, perm_iter, i_bound, batch,
                   gamma_requires_grad, flow_requires_grad, model_training,
                   flow_step_count, perm_step_count, diagnostics>>

\* line 196: get_temperature(epoch) raises
EpochBeginDividesByZero ==
    /\ pc = "epoch_head"
    /\ epoch < true_epochs
    /\ TemperatureDividesByZero
    /\ epochs_run' = epochs_run + 1
    /\ steps_this_epoch' = <<>>
    /\ Raise("ZeroDivisionError")
    /\ UNCHANGED <<tcfg, temperature, true_epochs, epoch, flow_iter, perm_iter, i_bound, batch,
                   gamma_requires_grad, flow_requires_grad, model_training,
                   flow_step_count, perm_step_count, diagnostics>>

\* line 192: range(self.true_epochs) is exhausted, train() returns
TrainReturn ==
    /\ pc = "epoch_head"
    /\ ~(epoch < true_epochs)
    /\ pc' = "done"
    /\ UNCHANGED <<tcfg, temperature, error, true_epochs, epoch, flow_iter, perm_iter, i_bound,
                   batch, gamma_requires_grad, flow_requires_grad, model_training,
                   flow_step_count, perm_step_count, epochs_run, steps_this_epoch,
                   diagnostics>>

\* --------------------------------------------------------- flow_train_step
\* line 132 left out
FreezeGamma_Missing == gamma_requires_grad' = gamma_requires_grad

\* line 132
FreezeGamma == gamma_requires_grad' = FALSE

\* line 144
UnfreezeGamma == gamma_requires_grad' = TRUE

\* lines 199-200 and 132: flow_train_step is called
FlowStepCall ==
    /\ pc = "flow_loop"
    /\ flow_iter < tcfg.flow_frequency
    /\ i_bound' = TRUE
    /\ steps_this_epoch' = Append(steps_this_epoch, "flow")
    /\ FreezeGamma
    /\ batch' = 0
    /\ pc' = "flow_batches"
    /\ UNCHANGED <<tcfg, temperature, error, true_epochs, epoch, flow_iter, perm_iter,
                   flow_requires_grad, model_training, flow_step_count,
                   perm_step_count, epochs_run, diagnostics>>

\* line 133: the dataloader yields a batch; lines 134-135
FlowBatchNext ==
    /\ pc = "flow_batches"
    /\ batch < tcfg.flow_batches
    /\ pc' = "flow_loss"
    /\ UNCHANGED <<tcfg, temperature, error, true_epochs, epoch, flow_iter, perm_iter, i_bound,
                   batch, gamma_requires_grad, flow_requires_grad, model_training,
                   flow_step_count, perm_step_count, epochs_run, steps_this_epoch,
                   diagnostics>>

\* lines 136-138
FlowLoss ==
    /\ pc = "flow_loss"
    /\ pc' = "flow_backward"
    /\ UNCHANGED <<tcfg, temperature, error, true_epochs, epoch, flow_iter, perm_iter, i_bound,
                   batch, gamma_requires_grad, flow_requires_grad, model_training,
                   flow_step_count, perm_step_count, epochs_run, steps_this_epoch,
                   diagnostics>>

\* line 139
FlowBackward ==
    /\ pc = "flow_backward"
    /\ pc' = "flow_optimizer_step"
    /\ UNCHANGED <<tcfg, temperature, error, true_epochs, epoch, flow_iter, perm_iter, i_bound,
                   batch, gamma_requires_grad, flow_requires_grad, model_training,
                   flow_step_count, perm_step_count, epochs_run, steps_this_epoch,
                   diagnostics>>

\* lines 140-143: flow_optimizer.step() and the step count
FlowOptimizerStep ==
    /\ pc = "flow_optimizer_step"
    /\ flow_step_count' = flow_step_count + 1
    /\ batch' = batch + 1
    /\ pc' = "flow_batches"
    /\ UNCHANGED <<tcfg, temperature, error, true_epochs, epoch, flow_iter, perm_iter, i_bound,
                   gamma_requires_grad, flow_requires_grad, model_training,
                   perm_step_count, epochs_run, steps_this_epoch, diagnostics>>

\* what an exception inside flow_train_step leaves behind: the step has no
\* try/finally, so line 144 is not run
FlowStepAbandoned ==
    UNCHANGED <<gamma_requires_grad, flow_requires_grad, model_training>>

\* lines 136-140: the loss, backward() or the optimizer step raises
FlowStepRaises ==
    /\ pc \in {"flow_loss", "flow_backward", "flow_optimizer_step"}
    /\ Raise("StepError")
    /\ FlowStepAbandoned
    /\ UNCHANGED <<tcfg, temperature, true_epochs, epoch, flow_iter, perm_iter, i_bound, batch,
                   flow_step_count, perm_step_count, epochs_run, steps_this_epoch,
                   diagnostics>>

\* lines 144-145 and 202-210: the dataloader is exhausted, the step returns its
\* last loss and the scheduler steps
FlowStepReturn ==
    /\ pc = "flow_batches"
    /\ ~(batch < tcfg.flow_batches)
    /\ tcfg.flow_batches > 0
    /\ UnfreezeGamma
    /\ flow_iter' = flow_iter + 1
    /\ diagnostics' = <<>>
    /\ pc' = "flow_loop"
    /\ UNCHANGED <<tcfg, temperature, error, true_epochs, epoch, perm_iter, i_bound, batch,
                   flow_requires_grad, model_training, flow_step_count,
                   perm_step_count, epochs_run, steps_this_epoch>>

\* lines 144-145: with an empty dataloader the local name loss was never bound
FlowStepUnbound ==
    /\ pc = "flow_batches"
    /\ tcfg.flow_batches = 0
    /\ UnfreezeGamma
    /\ Raise("UnboundLocalError")
    /\ UNCHANGED <<tcfg, temperature, true_epochs, epoch, flow_iter, perm_iter, i_bound, batch,
                   flow_requires_grad, model_training, flow_step_count,
                   perm_step_count, epochs_run, steps_this_epoch, diagnostics>>

\* line 199: range(self.flow_frequency) is exhausted; line 212
FlowLoopExit ==
    /\ pc = "flow_loop"
    /\ ~(flow_iter < tcfg.flow_frequency)
    /\ perm_iter' = 0
    /\ pc' = "perm_loop"
    /\ UNCHANGED <<tcfg, temperature, error, true_epochs, epoch, flow_iter, i_bound, batch,
                   gamma_requires_grad, flow_requires_grad, model_training,
                   flow_step_count, perm_step_count, epochs_run, steps_this_epoch,
                   diagnostics>>

\* -------------------------------------------------- permutation_train_step
\* lines 149-151: self.model.eval() and requires_grad = False on every parameter
FreezeFlow ==
    /\ model_training' = FALSE
    /\ flow_requires_grad' = FALSE

\* lines 163-165
UnfreezeFlow ==
    /\ flow_requires_grad' = TRUE
    /\ model_training' = TRUE

\* lines 212-213 and 149-151: permutation_train_step is called
PermStepCall ==
    /\ pc = "perm_loop"
    /\ perm_iter < tcfg.permutation_frequency
    /\ steps_this_epoch' = Append(steps_this_epoch, "permutation")
    /\ FreezeFlow
    /\ batch' = 0
    /\ pc' = "perm_batches"
    /\ UNCHANGED <<tcfg, temperature, error, true_epochs, epoch, flow_iter, perm_iter, i_bound,
                   gamma_requires_grad, flow_step_count, perm_step_count,
                   epochs_run, diagnostics>>

\* line 152: the dataloader yields a batch; lines 153-154
PermBatchNext ==
    /\ pc = "perm_batches"
    /\ batch < tcfg.perm_batches
    /\ pc' = "perm_loss"
    /\ UNCHANGED <<tcfg, temperature, error, true_epochs, epoch, flow_iter, perm_iter, i_bound,
                   batch, gamma_requires_grad, flow_requires_grad, model_training,
                   flow_step_count, perm_step_count, epochs_run, steps_this_epoch,
                   diagnostics>>

\* lines 155-157
PermLoss ==
    /\ pc = "perm_loss"
    /\ pc' = "perm_backward"
    /\ UNCHANGED <<tcfg, temperature, error, true_epochs, epoch, flow_iter, perm_iter, i_bound,
                   batch, gamma_requires_grad, flow_requires_grad, model_training,
                   flow_step_count, perm_step_count, epochs_run, steps_this_epoch,
                   diagnostics>>

\* line 158
PermBackward ==
    /\ pc = "perm_backward"
    /\ pc' = "perm_optimizer_step"
    /\ UNCHANGED <<tcfg, temperature, error, true_epochs, epoch, flow_iter, perm_iter, i_bound,
                   batch, gamma_requires_grad, flow_requires_grad, model_training,
                   flow_step_count, perm_step_count, epochs_run, steps_this_epoch,
                   diagnostics>>

\* lines 159-162: permutation_optimizer.step() and the step count
PermOptimizerStep ==
    /\ pc = "perm_optimizer_step"
    /\ perm_step_count' = perm_step_count + 1
    /\ batch' = batch + 1
    /\ pc' = "perm_batches"
    /\ UNCHANGED <<tcfg, temperature, error, true_epochs, epoch, flow_iter, perm_iter, i_bound,
                   gamma_requires_grad, flow_requires_grad, model_training,
                   flow_step_count, epochs_run, steps_this_epoch, diagnostics>>

\* what an exception inside permutation_train_step leaves behind: the step has
\* no try/finally, so lines 163-165 are not run
PermStepAbandoned ==
    UNCHANGED <<gamma_requires_grad, flow_requires_grad, model_training>>

\* lines 155-159: the loss, backward() or the optimizer step raises
PermStepRaises ==
    /\ pc \in {"perm_loss", "perm_backward", "perm_optimizer_step"}
    /\ Raise("StepError")
    /\ PermStepAbandoned
    /\ UNCHANGED <<tcfg, temperature, true_epochs, epoch, flow_iter, perm_iter, i_bound, batch,
                   flow_step_count, perm_step_count, epochs_run, steps_this_epoch,
                   diagnostics>>

\* the epoch left out of the count of line 234
BirkhoffDue_WithinEpoch(j) ==
    /\ tcfg.birkhoff.in_features <= 4
    /\ tcfg.birkhoff.given
    /\ j % tcfg.birkhoff.frequency = 0

\* lines 230-238: whether the Birkhoff polytope is rendered after step j of epoch
BirkhoffDue(j) ==
    /\ tcfg.birkhoff.in_features <= 4
    /\ tcfg.birkhoff.given
    /\ (j + epoch * tcfg.permutation_frequency) % tcfg.birkhoff.frequency = 0

\* lines 163-166 and 216-253: the dataloader is exhausted, the step returns its
\* last loss, the scheduler steps and the diagnostics are logged
PermStepReturn ==
    /\ pc = "perm_batches"
    /\ ~(batch < tcfg.perm_batches)
    /\ tcfg.perm_batches > 0
    /\ i_bound
    /\ UnfreezeFlow
    /\ diagnostics' = <<"log_evaluation">> \o
                      (IF BirkhoffDue(perm_iter) THEN <<"birkhoff">> ELSE <<>>)
    /\ perm_iter' = perm_iter + 1
    /\ pc' = "perm_loop"
    /\ UNCHANGED <<tcfg, temperature, error, true_epochs, epoch, flow_iter, i_bound, batch,
                   gamma_requires_grad, flow_step_count, perm_step_count,
                   epochs_run, steps_this_epoch>>

\* lines 163-166: with an empty dataloader the local name loss was never bound
PermStepUnbound ==
    /\ pc = "perm_batches"
    /\ tcfg.perm_batches = 0
    /\ UnfreezeFlow
    /\ Raise("UnboundLocalError")
    /\ UNCHANGED <<tcfg, temperature, true_epochs, epoch, flow_iter, perm_iter, i_bound, batch,
                   gamma_requires_grad, flow_step_count, perm_step_count,
                   epochs_run, steps_this_epoch, diagnostics>>

\* lines 216-218: the log line reads i, which only the flow loop binds
PermStepLogUnbound ==
    /\ pc = "perm_batches"
    /\ ~(batch < tcfg.perm_batches)
    /\ tcfg.perm_batches > 0
    /\ ~i_bound
    /\ UnfreezeFlow
    /\ Raise("NameError")
    /\ UNCHANGED <<tcfg, temperature, true_epochs, epoch, flow_iter, perm_iter, i_bound, batch,
                   gamma_requires_grad, flow_step_count, perm_step_count,
                   epochs_run, steps_this_epoch, diagnostics>>

\* line 212: range(self.permutation_frequency) is exhausted; line 192
PermLoopExit ==
    /\ pc = "perm_loop"
    /\ ~(perm_iter < tcfg.permutation_frequency)
    /\ epoch' = epoch + 1
    /\ pc' = "epoch_head"
    /\ UNCHANGED <<tcfg, temperature, error, true_epochs, flow_iter, perm_iter, i_bound, batch,
                   gamma_requires_grad, flow_requires_grad, model_training,
                   flow_step_count, perm_step_count, epochs_run, steps_this_epoch,
                   diagnostics>>

\* ---------------------------------------------------------- count_backward
\* base_scm.py line 185: {v: i for i, v in enumerate(ordering)}, the position of
\* a node being the last index that holds it
Position(ordering, v) ==
    CHOOSE i \in DOMAIN ordering :
        /\ ordering[i] = v
        /\ \A k \in DOMAIN ordering : ordering[k] = v => k <= i

\* an edge counts only when its source stands more than one place after its
\* target
RECURSIVE CountReversed_Apart(_, _)
CountReversed_Apart(ordering, edges) ==
    IF edges = {} THEN 0
    ELSE LET e == CHOOSE x \in edges : TRUE
         IN  (IF Position(ordering, e[1]) > Position(ordering, e[2]) + 1 THEN 1 ELSE 0)
             + CountReversed_Apart(ordering, edges \ {e})

\* base_scm.py lines 187-191: the loop over dag.edges
RECURSIVE CountReversed(_, _)
CountReversed(ordering, edges) ==
    IF edges = {} THEN 0
    ELSE LET e == CHOOSE x \in edges : TRUE
         IN  (IF Position(ordering, e[1]) > Position(ordering, e[2]) THEN 1 ELSE 0)
             + CountReversed(ordering, edges \ {e})

\* a count of the edges that point forward instead
count_backward_Forward(ordering, dag) ==
    Cardinality(dag.edges) - CountReversed(ordering, dag.edges)

count_backward(ordering, dag) == CountReversed(ordering, dag.edges)

\* ---------------------------------------------------------- log_evaluation
\* the orderings of the nodes 0..d-1, as lists
Orderings(d) ==
    {o \in [1..d -> 0..(d - 1)] : \A i, k \in 1..d : i # k => o[i] # o[k]}

\* the d x d matrix with a 1 in row i at column o[i], as a list of rows
PermutationMatrix(o) ==
    [i \in DOMAIN o |-> [k \in DOMAIN o |-> IF o[i] = k - 1 THEN 1 ELSE 0]]

\* what sample_hard_permutations(n) returns: n permutation matrices
HardSamples(n, d) == [1..n -> {PermutationMatrix(o) : o \in Orderings(d)}]

\* the rows of a matrix one after the other
RECURSIVE Flatten(_)
Flatten(m) == IF m = <<>> THEN <<>> ELSE Head(m) \o Flatten(Tail(m))

\* a before b in the order torch.unique sorts its slices in
LexLess(a, b) ==
    \E k \in DOMAIN a :
        /\ a[k] < b[k]
        /\ \A i \in 1..(k - 1) : a[i] = b[i]

\* tensor.argmax(): the index, from 0, of the first largest entry
ArgMax(row) ==
    (CHOOSE k \in DOMAIN row :
        /\ \A i \in DOMAIN row : row[i] <= row[k]
        /\ \A i \in 1..(k - 1) : row[i] < row[k]) - 1

\* the matrices of the set S in the order torch.unique sorts its slices in
RECURSIVE Sorted(_)
Sorted(S) ==
    IF S = {} THEN <<>>
    ELSE LET first == CHOOSE m \in S :
                          \A q \in S \ {m} : LexLess(Flatten(m), Flatten(q))
         IN  <<first>> \o Sorted(S \ {first})

\* trainer.py lines 175-177, torch.unique(dim=0, return_counts=True): the
\* distinct samples in sorted order and how often each occurs
Unique(permutation_samples) ==
    LET distinct == Sorted({permutation_samples[k] : k \in DOMAIN permutation_samples})
    IN  [permutation |-> distinct,
         counts |-> [u \in DOMAIN distinct |->
                        Cardinality({k \in DOMAIN permutation_samples :
                                        permutation_samples[k] = distinct[u]})]]

\* line 179 with the index 0 in place of counts.argmax()
MostFrequent_First(permutation, counts) == permutation[1]

\* line 179: permutation[counts.argmax()]
MostFrequent(permutation, counts) == permutation[ArgMax(counts) + 1]

\* trainer.py lines 168-182, for the samples the sampler returned
log_evaluation(permutation_samples) ==
    \E unique \in {Unique(permutation_samples)} :
        \E permutation \in {MostFrequent(unique.permutation, unique.counts)} :
            \E ordering \in {[i \in DOMAIN permutation |-> ArgMax(permutation[i])]} :
                call' = [fn |-> "log_evaluation",
                         num_samples |-> Len(permutation_samples),
                         unique |-> unique,
                         permutation |-> ordering,
                         backward_penalty |-> count_backward(ordering, tcfg.dag)]

flow_train_step ==
    \/ FlowStepCall
    \/ FlowBatchNext
    \/ FlowLoss
    \/ FlowBackward
    \/ FlowOptimizerStep
    \/ FlowStepRaises
    \/ FlowStepReturn
    \/ FlowStepUnbound

permutation_train_step ==
    \/ PermStepCall
    \/ PermBatchNext
    \/ PermLoss
    \/ PermBackward
    \/ PermOptimizerStep
    \/ PermStepRaises
    \/ PermStepReturn
    \/ PermStepUnbound
    \/ PermStepLogUnbound

train ==
    \/ TrainBegin
    \/ TrainBeginDividesByZero
    \/ EpochBegin
    \/ EpochBeginDividesByZero
    \/ TrainReturn
    \/ FlowLoopExit
    \/ PermLoopExit
    \/ flow_train_step
    \/ permutation_train_step

\* ----------------------------------------------------------- specifications
\* a callback that is constructed with the default arguments (lines 30-47) and
\* never driven
IdleCallback == PhaseChangerInit({DefaultConfig})

\* a Trainer that is constructed and never run
IdleTrainer ==
    TrainerInit({c \in TrainerConfigs({"constant"}, NoBirkhoff) :
                    /\ c.max_epochs = 0
                    /\ c.temperature = 1
                    /\ c.flow_frequency = 0 /\ c.permutation_frequency = 0
                    /\ c.flow_batches = 0 /\ c.perm_batches = 0})

\* no function has been called
NoCall == [fn |-> "none"]

\* ------------------------------------------- ExplorabilityCallback.__init__
\* no image has been handed to the logger
NoImage == [made |-> FALSE, permutations |-> {}, phase |-> "None", epoch |-> 0,
            ended_phase |-> {}]

\* visualize_explorability.py lines 24-38
ExplorabilityInit(configs) ==
    /\ xcfg \in configs
    /\ last_saved_phase = "None"
    /\ log_every_n_epochs_counter = 0
    /\ logged_permutations = {}
    /\ image = NoImage
    /\ explorability_error = "none"
    /\ current_epoch = 0
    /\ logged_this_phase = {}
    /\ logged_ended_phase = {}

\* a callback with the default arguments that is never called
IdleExplorability ==
    ExplorabilityInit({[log_on_phase_change |-> TRUE, log_every_n_epochs |-> 0]})

\* nothing is remembered
NoHistory ==
    [epochs |-> 0, checks |-> 0, transitions |-> 0, last_loss |-> 0,
     nondecreasing |-> TRUE, batches |-> 0,
     passes |-> 0, pass_sum |-> 0, pass_checks |-> 0, ended_transitions |-> 0]

\* The phase changer under every trigger, with the optimizer reset and the
\* weight reinitialisation at their default settings.
Init ==
    /\ PhaseChangerInit(Configs(EpochSettings({TRUE}, {FALSE}),
                                LossConvergenceOff \cup LossConvergenceOn(1..MaxPatience),
                                GeneralizationOff \cup GeneralizationOn(1..MaxPatience)))
    /\ IdleTrainer
    /\ call = NoCall
    /\ IdleExplorability
    /\ hist = NoHistory

Next ==
    \/ on_fit_start /\ UNCHANGED <<trVars, fnVars, exVars, hist>>
    \/ on_train_epoch_end /\ UNCHANGED <<trVars, fnVars, exVars, hist>>
    \/ TrainBatchSkipped /\ UNCHANGED <<trVars, fnVars, exVars, hist>>
    \/ TrainBatchNotDue /\ UNCHANGED <<trVars, fnVars, exVars, hist>>
    \/ TrainBatchRaises /\ UNCHANGED <<trVars, fnVars, exVars, hist>>
    \/ \E loss \in Losses : TrainBatchCheck(loss) /\ UNCHANGED <<trVars, fnVars, exVars, hist>>
    \/ \E batch_idx \in 0..(MaxValBatches - 1), last \in BOOLEAN :
          ValBatchSkipped(batch_idx, last) /\ UNCHANGED <<trVars, fnVars, exVars, hist>>
    \/ \E batch_idx \in 0..(MaxValBatches - 1), last \in BOOLEAN :
          ValBatchRaises(batch_idx, last) /\ UNCHANGED <<trVars, fnVars, exVars, hist>>
    \/ \E batch_idx \in 0..(MaxValBatches - 1), last \in BOOLEAN, loss \in Losses :
          ValBatchCheck(batch_idx, last, loss) /\ UNCHANGED <<trVars, fnVars, exVars, hist>>

Spec == Init /\ [][Next]_vars

\* The Trainer's loop under every schedule, without a Birkhoff configuration.
TrainerSpecInit ==
    /\ TrainerInit(TrainerConfigs(Schedulers, NoBirkhoff))
    /\ IdleCallback
    /\ call = NoCall
    /\ IdleExplorability
    /\ hist = NoHistory

TrainerNext ==
    \/ TrainBegin /\ UNCHANGED <<pcVars, fnVars, exVars, hist>>
    \/ TrainBeginDividesByZero /\ UNCHANGED <<pcVars, fnVars, exVars, hist>>
    \/ EpochBegin /\ UNCHANGED <<pcVars, fnVars, exVars, hist>>
    \/ EpochBeginDividesByZero /\ UNCHANGED <<pcVars, fnVars, exVars, hist>>
    \/ TrainReturn /\ UNCHANGED <<pcVars, fnVars, exVars, hist>>
    \/ FlowStepCall /\ UNCHANGED <<pcVars, fnVars, exVars, hist>>
    \/ FlowBatchNext /\ UNCHANGED <<pcVars, fnVars, exVars, hist>>
    \/ FlowLoss /\ UNCHANGED <<pcVars, fnVars, exVars, hist>>
    \/ FlowBackward /\ UNCHANGED <<pcVars, fnVars, exVars, hist>>
    \/ FlowOptimizerStep /\ UNCHANGED <<pcVars, fnVars, exVars, hist>>
    \/ FlowStepRaises /\ UNCHANGED <<pcVars, fnVars, exVars, hist>>
    \/ FlowStepReturn /\ UNCHANGED <<pcVars, fnVars, exVars, hist>>
    \/ FlowStepUnbound /\ UNCHANGED <<pcVars, fnVars, exVars, hist>>
    \/ FlowLoopExit /\ UNCHANGED <<pcVars, fnVars, exVars, hist>>
    \/ PermStepCall /\ UNCHANGED <<pcVars, fnVars, exVars, hist>>
    \/ PermBatchNext /\ UNCHANGED <<pcVars, fnVars, exVars, hist>>
    \/ PermLoss /\ UNCHANGED <<pcVars, fnVars, exVars, hist>>
    \/ PermBackward /\ UNCHANGED <<pcVars, fnVars, exVars, hist>>
    \/ PermOptimizerStep /\ UNCHANGED <<pcVars, fnVars, exVars, hist>>
    \/ PermStepRaises /\ UNCHANGED <<pcVars, fnVars, exVars, hist>>
    \/ PermStepReturn /\ UNCHANGED <<pcVars, fnVars, exVars, hist>>
    \/ PermStepUnbound /\ UNCHANGED <<pcVars, fnVars, exVars, hist>>
    \/ PermStepLogUnbound /\ UNCHANGED <<pcVars, fnVars, exVars, hist>>
    \/ PermLoopExit /\ UNCHANGED <<pcVars, fnVars, exVars, hist>>

TrainerSpec == TrainerSpecInit /\ [][TrainerNext]_vars

\* The phase changer with both early-stopping triggers switched off; the
\* training epochs that have ended are counted.
EpochLimitInit ==
    /\ PhaseChangerInit(Configs(EpochSettings(BOOLEAN, BOOLEAN), LossConvergenceOff,
                                GeneralizationOff))
    /\ IdleTrainer
    /\ call = NoCall
    /\ IdleExplorability
    /\ hist = NoHistory

CountEpoch ==
    /\ hist.epochs < MaxEpochs
    /\ hist' = [hist EXCEPT !.epochs = @ + 1]

EpochLimitNext ==
    \/ on_fit_start /\ UNCHANGED <<trVars, fnVars, exVars, hist>>
    \/ on_train_epoch_end /\ CountEpoch /\ UNCHANGED <<trVars, fnVars, exVars>>
    \/ TrainBatchSkipped /\ UNCHANGED <<trVars, fnVars, exVars, hist>>
    \/ \E batch_idx \in 0..(MaxValBatches - 1), last \in BOOLEAN :
          ValBatchSkipped(batch_idx, last) /\ UNCHANGED <<trVars, fnVars, exVars, hist>>

EpochLimitSpec == EpochLimitInit /\ [][EpochLimitNext]_vars

\* The phase changer with loss-convergence stopping on and generalization
\* stopping off.
LossConvergenceInit ==
    /\ PhaseChangerInit(Configs(EpochSettings({TRUE}, {FALSE}),
                                LossConvergenceOn(1..MaxPatience), GeneralizationOff))
    /\ IdleTrainer
    /\ call = NoCall
    /\ IdleExplorability
    /\ hist = NoHistory

LossConvergenceNext ==
    \/ on_fit_start /\ UNCHANGED <<trVars, fnVars, exVars, hist>>
    \/ on_train_epoch_end /\ UNCHANGED <<trVars, fnVars, exVars, hist>>
    \/ TrainBatchSkipped /\ UNCHANGED <<trVars, fnVars, exVars, hist>>
    \/ TrainBatchNotDue /\ UNCHANGED <<trVars, fnVars, exVars, hist>>
    \/ TrainBatchRaises /\ UNCHANGED <<trVars, fnVars, exVars, hist>>
    \/ \E loss \in Losses : TrainBatchCheck(loss) /\ UNCHANGED <<trVars, fnVars, exVars, hist>>
    \/ \E batch_idx \in 0..(MaxValBatches - 1), last \in BOOLEAN :
          ValBatchSkipped(batch_idx, last) /\ UNCHANGED <<trVars, fnVars, exVars, hist>>

LossConvergenceSpec == LossConvergenceInit /\ [][LossConvergenceNext]_vars

\* The phase changer with its default arguments and loss-convergence stopping
\* on (patience 5, eps one unit, a check on every iteration), fed training
\* batches only; the checks and the transitions are counted.
PatienceInit ==
    /\ PhaseChangerInit({[DefaultConfig EXCEPT !.loss_convergence_early_stopping = TRUE]})
    /\ IdleTrainer
    /\ call = NoCall
    /\ IdleExplorability
    /\ hist = NoHistory

ObserveCheck(loss) ==
    /\ hist.checks < MaxChecks
    /\ hist' = [hist EXCEPT
                  !.checks = @ + 1,
                  !.transitions = IF trigger' # "none" THEN @ + 1 ELSE @,
                  !.last_loss = loss,
                  !.nondecreasing = @ /\ (hist.checks = 0 \/ loss >= hist.last_loss)]

PatienceNext ==
    \/ on_fit_start /\ UNCHANGED <<trVars, fnVars, exVars, hist>>
    \/ TrainBatchSkipped /\ UNCHANGED <<trVars, fnVars, exVars, hist>>
    \/ \E loss \in Losses : TrainBatchCheck(loss) /\ ObserveCheck(loss) /\ UNCHANGED <<trVars, fnVars, exVars>>

PatienceSpec == PatienceInit /\ [][PatienceNext]_vars

\* The phase changer with generalization stopping on and loss-convergence
\* stopping off.
GeneralizationInit ==
    /\ PhaseChangerInit(Configs(EpochSettings({TRUE}, {FALSE}), LossConvergenceOff,
                                GeneralizationOn(1..MaxPatience)))
    /\ IdleTrainer
    /\ call = NoCall
    /\ IdleExplorability
    /\ hist = NoHistory

GeneralizationNext ==
    \/ on_fit_start /\ UNCHANGED <<trVars, fnVars, exVars, hist>>
    \/ on_train_epoch_end /\ UNCHANGED <<trVars, fnVars, exVars, hist>>
    \/ TrainBatchSkipped /\ UNCHANGED <<trVars, fnVars, exVars, hist>>
    \/ \E batch_idx \in 0..(MaxValBatches - 1), last \in BOOLEAN :
          ValBatchSkipped(batch_idx, last) /\ UNCHANGED <<trVars, fnVars, exVars, hist>>
    \/ \E batch_idx \in 0..(MaxValBatches - 1), last \in BOOLEAN :
          ValBatchRaises(batch_idx, last) /\ UNCHANGED <<trVars, fnVars, exVars, hist>>
    \/ \E batch_idx \in 0..(MaxValBatches - 1), last \in BOOLEAN, loss \in Losses :
          ValBatchCheck(batch_idx, last, loss) /\ UNCHANGED <<trVars, fnVars, exVars, hist>>

GeneralizationSpec == GeneralizationInit /\ [][GeneralizationNext]_vars

\* The phase changer under every trigger and every setting of reset_optimizers
\* and reinitialize_weights_on_maximization, with patiences of one check.
CallsInit ==
    /\ PhaseChangerInit(Configs(EpochSettings(BOOLEAN, BOOLEAN),
                                LossConvergenceOff \cup LossConvergenceOn({1}),
                                GeneralizationOff \cup GeneralizationOn({1})))
    /\ IdleTrainer
    /\ call = NoCall
    /\ IdleExplorability
    /\ hist = NoHistory

\* the calls made on pl_module do not depend on how far apart two losses are:
\* the smallest and the largest loss stand for an improvement and for none
CoarseLosses == {0, MaxLoss}

CallsNext ==
    \/ on_fit_start /\ UNCHANGED <<trVars, fnVars, exVars, hist>>
    \/ on_train_epoch_end /\ UNCHANGED <<trVars, fnVars, exVars, hist>>
    \/ TrainBatchSkipped /\ UNCHANGED <<trVars, fnVars, exVars, hist>>
    \/ TrainBatchNotDue /\ UNCHANGED <<trVars, fnVars, exVars, hist>>
    \/ TrainBatchRaises /\ UNCHANGED <<trVars, fnVars, exVars, hist>>
    \/ \E loss \in CoarseLosses : TrainBatchCheck(loss) /\ UNCHANGED <<trVars, fnVars, exVars, hist>>
    \/ \E batch_idx \in 0..(MaxValBatches - 1), last \in BOOLEAN :
          ValBatchSkipped(batch_idx, last) /\ UNCHANGED <<trVars, fnVars, exVars, hist>>
    \/ \E batch_idx \in 0..(MaxValBatches - 1), last \in BOOLEAN :
          ValBatchRaises(batch_idx, last) /\ UNCHANGED <<trVars, fnVars, exVars, hist>>
    \/ \E batch_idx \in 0..(MaxValBatches - 1), last \in BOOLEAN, loss \in CoarseLosses :
          ValBatchCheck(batch_idx, last, loss) /\ UNCHANGED <<trVars, fnVars, exVars, hist>>

CallsSpec == CallsInit /\ [][CallsNext]_vars

\* The Trainer's short runs (at most one flow-step and two permutation-steps
\* an epoch, dataloaders of at most one batch, the default temperature), with
\* the evaluation that follows a permutation-step (line 228) carried out on
\* the samples drawn.
EvaluationInit ==
    /\ TrainerInit({c \in TrainerConfigs({"constant", "linear"}, NoBirkhoff) :
                       /\ c.temperature = 1
                       /\ c.max_epochs <= 1
                       /\ c.flow_frequency <= 1
                       /\ c.permutation_frequency <= 2
                       /\ c.flow_batches <= 1
                       /\ c.perm_batches <= 1})
    /\ IdleCallback
    /\ call = NoCall
    /\ IdleExplorability
    /\ hist = NoHistory

EvaluationNext ==
    \/ TrainBegin /\ UNCHANGED <<pcVars, fnVars, exVars, hist>>
    \/ TrainBeginDividesByZero /\ UNCHANGED <<pcVars, fnVars, exVars, hist>>
    \/ EpochBegin /\ UNCHANGED <<pcVars, fnVars, exVars, hist>>
    \/ EpochBeginDividesByZero /\ UNCHANGED <<pcVars, fnVars, exVars, hist>>
    \/ TrainReturn /\ UNCHANGED <<pcVars, fnVars, exVars, hist>>
    \/ FlowStepCall /\ UNCHANGED <<pcVars, fnVars, exVars, hist>>
    \/ FlowBatchNext /\ UNCHANGED <<pcVars, fnVars, exVars, hist>>
    \/ FlowLoss /\ UNCHANGED <<pcVars, fnVars, exVars, hist>>
    \/ FlowBackward /\ UNCHANGED <<pcVars, fnVars, exVars, hist>>
    \/ FlowOptimizerStep /\ UNCHANGED <<pcVars, fnVars, exVars, hist>>
    \/ FlowStepRaises /\ UNCHANGED <<pcVars, fnVars, exVars, hist>>
    \/ FlowStepReturn /\ UNCHANGED <<pcVars, fnVars, exVars, hist>>
    \/ FlowStepUnbound /\ UNCHANGED <<pcVars, fnVars, exVars, hist>>
    \/ FlowLoopExit /\ UNCHANGED <<pcVars, fnVars, exVars, hist>>
    \/ PermStepCall /\ UNCHANGED <<pcVars, fnVars, exVars, hist>>
    \/ PermBatchNext /\ UNCHANGED <<pcVars, fnVars, exVars, hist>>
    \/ PermLoss /\ UNCHANGED <<pcVars, fnVars, exVars, hist>>
    \/ PermBackward /\ UNCHANGED <<pcVars, fnVars, exVars, hist>>
    \/ PermOptimizerStep /\ UNCHANGED <<pcVars, fnVars, exVars, hist>>
    \/ PermStepRaises /\ UNCHANGED <<pcVars, fnVars, exVars, hist>>
    \/ \E permutation_samples \in HardSamples(MaxSamples, tcfg.birkhoff.in_features) :
          PermStepReturn /\ log_evaluation(permutation_samples) /\ UNCHANGED <<pcVars, exVars, hist>>
    \/ PermStepUnbound /\ UNCHANGED <<pcVars, fnVars, exVars, hist>>
    \/ PermStepLogUnbound /\ UNCHANGED <<pcVars, fnVars, exVars, hist>>
    \/ PermLoopExit /\ UNCHANGED <<pcVars, fnVars, exVars, hist>>

EvaluationSpec == EvaluationInit /\ [][EvaluationNext]_vars

\* a training batch has ended; it is counted if the phase was maximization
CountBatch ==
    /\ hist.batches < MaxChecks
    /\ hist' = [hist EXCEPT !.batches = IF current_phase = "maximization" THEN @ + 1 ELSE @]

\* The phase changer of LossConvergenceInit, fed training batches and epoch
\* ends; the training batches that end in maximization are counted.
CheckEveryNext ==
    \/ on_fit_start /\ UNCHANGED <<trVars, fnVars, exVars, hist>>
    \/ on_train_epoch_end /\ UNCHANGED <<trVars, fnVars, exVars, hist>>
    \/ TrainBatchSkipped /\ CountBatch /\ UNCHANGED <<trVars, fnVars, exVars>>
    \/ TrainBatchNotDue /\ CountBatch /\ UNCHANGED <<trVars, fnVars, exVars>>
    \/ TrainBatchRaises /\ CountBatch /\ UNCHANGED <<trVars, fnVars, exVars>>
    \/ \E loss \in CoarseLosses :
          TrainBatchCheck(loss) /\ CountBatch /\ UNCHANGED <<trVars, fnVars, exVars>>

CheckEverySpec == LossConvergenceInit /\ [][CheckEveryNext]_vars

\* The validation passes of a run, each handed over batch by batch without
\* another callback in between; a pass has any length up to MaxValBatches (the
\* pass of the sanity check before the first epoch is shorter than the later
\* ones).  Remembered beside the callback: the number of passes begun in a
\* generalization-enabled phase (up to MaxPasses), the sum of the losses of the
\* running pass and the number of checks made in it.
MaxPasses == 3

ObservePass(batch_idx, loss) ==
    hist' = [hist EXCEPT
                !.passes = IF batch_idx = 0 /\ @ < MaxPasses THEN @ + 1 ELSE @,
                !.pass_sum = (IF batch_idx = 0 THEN 0 ELSE @) + loss,
                !.pass_checks = (IF batch_idx = 0 THEN 0 ELSE @)
                                + (IF num_validation_batches = batch_idx + 1 THEN 1 ELSE 0)]

BetweenPasses == val_batch_idx = 0

ValidationPassNext ==
    \/ on_fit_start /\ UNCHANGED <<trVars, fnVars, exVars, hist>>
    \/ BetweenPasses /\ on_train_epoch_end /\ UNCHANGED <<trVars, fnVars, exVars, hist>>
    \/ \E batch_idx \in 0..(MaxValBatches - 1), last \in BOOLEAN :
          ValBatchSkipped(batch_idx, last) /\ UNCHANGED <<trVars, fnVars, exVars, hist>>
    \/ \E batch_idx \in 0..(MaxValBatches - 1), last \in BOOLEAN :
          ValBatchRaises(batch_idx, last) /\ UNCHANGED <<trVars, fnVars, exVars, hist>>
    \/ \E batch_idx \in 0..(MaxValBatches - 1), last \in BOOLEAN, loss \in Losses :
          /\ ValBatchCheck(batch_idx, last, loss)
          /\ ObservePass(batch_idx, loss)
          /\ UNCHANGED <<trVars, fnVars, exVars>>

ValidationPassSpec == GeneralizationInit /\ [][ValidationPassNext]_vars

\* The callbacks of a run epoch by epoch.  Remembered beside the callback: the
\* number of phase changes made since the last epoch end (up to
\* MaxTransitions), and the number made in the epoch that ended last, the one
\* at its end included.
MaxTransitions == 3

ObserveBatch ==
    hist' = [hist EXCEPT
                !.transitions = IF trigger' # "none" /\ @ < MaxTransitions
                                THEN @ + 1 ELSE @]

ObserveEpochEnd ==
    hist' = [hist EXCEPT
                !.ended_transitions = IF trigger' # "none" /\ hist.transitions < MaxTransitions
                                      THEN hist.transitions + 1 ELSE hist.transitions,
                !.transitions = 0]

EpochsNext ==
    \/ on_fit_start /\ UNCHANGED <<trVars, fnVars, exVars, hist>>
    \/ on_train_epoch_end /\ ObserveEpochEnd /\ UNCHANGED <<trVars, fnVars, exVars>>
    \/ TrainBatchSkipped /\ UNCHANGED <<trVars, fnVars, exVars, hist>>
    \/ TrainBatchNotDue /\ UNCHANGED <<trVars, fnVars, exVars, hist>>
    \/ \E loss \in CoarseLosses :
          TrainBatchCheck(loss) /\ ObserveBatch /\ UNCHANGED <<trVars, fnVars, exVars>>
    \/ \E batch_idx \in 0..(MaxValBatches - 1), last \in BOOLEAN :
          ValBatchSkipped(batch_idx, last) /\ UNCHANGED <<trVars, fnVars, exVars, hist>>
    \/ \E batch_idx \in 0..(MaxValBatches - 1), last \in BOOLEAN, loss \in CoarseLosses :
          /\ ValBatchCheck(batch_idx, last, loss)
          /\ ObserveBatch
          /\ UNCHANGED <<trVars, fnVars, exVars>>

EpochsSpec == Init /\ [][EpochsNext]_vars

\* The Trainer with and without a birkhoff_config, around the limit of 4
\* features, with dataloaders of at most one batch and the default temperature.
BirkhoffInit ==
    /\ TrainerInit({c \in TrainerConfigs({"constant", "linear"}, Birkhoffs) :
                       /\ c.temperature = 1
                       /\ c.flow_batches <= 1
                       /\ c.perm_batches <= 1})
    /\ IdleCallback
    /\ call = NoCall
    /\ IdleExplorability
    /\ hist = NoHistory

BirkhoffSpec == BirkhoffInit /\ [][TrainerNext]_vars

\* The Trainer from its construction on, under every method name and also a
\* schedule name that get_temperature does not know, with dataloaders of at
\* most one batch and the default temperature.
ConstructionInit ==
    /\ TrainerNew({[c EXCEPT !.method = m] :
                      c \in {x \in TrainerConfigs(Schedulers \cup UnknownSchedulers,
                                                  NoBirkhoff) :
                                /\ x.temperature = 1
                                /\ x.flow_batches <= 1
                                /\ x.perm_batches <= 1},
                      m \in DOMAIN ModuleClasses \cup UnknownMethods})
    /\ IdleCallback
    /\ call = NoCall
    /\ IdleExplorability
    /\ hist = NoHistory

ConstructionNext ==
    \/ TrainerConstructed /\ UNCHANGED <<pcVars, exVars, hist>>
    \/ TrainerConstructRaises /\ UNCHANGED <<pcVars, exVars, hist>>
    \/ TrainBegin /\ UNCHANGED <<pcVars, fnVars, exVars, hist>>
    \/ TrainBeginDividesByZero /\ UNCHANGED <<pcVars, fnVars, exVars, hist>>
    \/ EpochBegin /\ UNCHANGED <<pcVars, fnVars, exVars, hist>>
    \/ EpochBeginDividesByZero /\ UNCHANGED <<pcVars, fnVars, exVars, hist>>
    \/ TrainReturn /\ UNCHANGED <<pcVars, fnVars, exVars, hist>>
    \/ FlowStepCall /\ UNCHANGED <<pcVars, fnVars, exVars, hist>>
    \/ FlowBatchNext /\ UNCHANGED <<pcVars, fnVars, exVars, hist>>
    \/ FlowLoss /\ UNCHANGED <<pcVars, fnVars, exVars, hist>>
    \/ FlowBackward /\ UNCHANGED <<pcVars, fnVars, exVars, hist>>
    \/ FlowOptimizerStep /\ UNCHANGED <<pcVars, fnVars, exVars, hist>>
    \/ FlowStepRaises /\ UNCHANGED <<pcVars, fnVars, exVars, hist>>
    \/ FlowStepReturn /\ UNCHANGED <<pcVars, fnVars, exVars, hist>>
    \/ FlowStepUnbound /\ UNCHANGED <<pcVars, fnVars, exVars, hist>>
    \/ FlowLoopExit /\ UNCHANGED <<pcVars, fnVars, exVars, hist>>
    \/ PermStepCall /\ UNCHANGED <<pcVars, fnVars, exVars, hist>>
    \/ PermBatchNext /\ UNCHANGED <<pcVars, fnVars, exVars, hist>>
    \/ PermLoss /\ UNCHANGED <<pcVars, fnVars, exVars, hist>>
    \/ PermBackward /\ UNCHANGED <<pcVars, fnVars, exVars, hist>>
    \/ PermOptimizerStep /\ UNCHANGED <<pcVars, fnVars, exVars, hist>>
    \/ PermStepRaises /\ UNCHANGED <<pcVars, fnVars, exVars, hist>>
    \/ PermStepReturn /\ UNCHANGED <<pcVars, fnVars, exVars, hist>>
    \/ PermStepUnbound /\ UNCHANGED <<pcVars, fnVars, exVars, hist>>
    \/ PermStepLogUnbound /\ UNCHANGED <<pcVars, fnVars, exVars, hist>>
    \/ PermLoopExit /\ UNCHANGED <<pcVars, fnVars, exVars, hist>>

ConstructionSpec == ConstructionInit /\ [][ConstructionNext]_vars

\* ===================================================================== SCM
\* the number of nodes of the graphs
MaxNodes == 3

\* base_scm.py line 49 and lines 193-196: what nx.topological_sort may return,
\* the orderings of the nodes in which every edge points forward
TopologicalOrders(dag) ==
    {o \in Orderings(Cardinality(dag.nodes)) :
        \A e \in dag.edges : Position(o, e[1]) < Position(o, e[2])}

\* the directed acyclic graphs over the nodes 0..n-1
Dags(n) ==
    {d \in [nodes : {0..(n - 1)},
            edges : SUBSET {e \in (0..(n - 1)) \X (0..(n - 1)) : e[1] # e[2]}] :
        TopologicalOrders(d) # {}}

\* an SCM that is constructed over one of the graphs
SCMInit ==
    /\ IdleCallback
    /\ IdleTrainer
    /\ IdleExplorability
    /\ hist = NoHistory
    /\ call \in [fn : {"SCM.__init__"}, dag : Dags(MaxNodes)]

\* SCM.count_backward(ordering) for an ordering that lists every node once
SCMCountBackward ==
    /\ call.fn # "none"
    /\ \E ordering \in Orderings(Cardinality(call.dag.nodes)) :
          call' = [fn |-> "count_backward", dag |-> call.dag, ordering |-> ordering,
                   count |-> count_backward(ordering, call.dag)]

\* the property SCM.ordering
SCMOrdering ==
    /\ call.fn # "none"
    /\ \E ordering \in TopologicalOrders(call.dag) :
          call' = [fn |-> "ordering", dag |-> call.dag, ordering |-> ordering]

BackwardNext ==
    \/ SCMCountBackward /\ UNCHANGED <<pcVars, trVars, exVars, hist>>
    \/ SCMOrdering /\ UNCHANGED <<pcVars, trVars, exVars, hist>>

BackwardSpec == SCMInit /\ [][BackwardNext]_vars

\* ================================================ PermutationLearningModule
\* the width of gamma
MaxFeatures == 2

\* the entries of gamma and of one draw of the noise, on a grid of integers
GammaEntries == {0, 1}
GumbelEntries == {0, 1}

\* the sum of a list of numbers
RECURSIVE Sum(_)
Sum(list) == IF list = <<>> THEN 0 ELSE Head(list) + Sum(Tail(list))

\* the square matrices of width d over the given entries, as lists of rows
Matrices(d, entries) == [1..d -> [1..d -> entries]]

\* sample_gumbel_noise for one sample: any noise of the shape of gamma
sample_gumbel_noise(d) == Matrices(d, GumbelEntries)

\* the weight an assignment collects: row i is matched with column perm[i]
AssignmentWeight(m, perm) == Sum([i \in DOMAIN perm |-> m[i][perm[i] + 1]])

\* every row takes its own largest column, whether or not another row took it
hungarian_RowArgmax(m) == {[i \in DOMAIN m |-> ArgMax(m[i])]}

\* hungarian: the assignments of maximum weight; which of several the solver
\* returns is its own policy
hungarian(m) ==
    {perm \in Orderings(Len(m)) :
        \A other \in Orderings(Len(m)) :
            AssignmentWeight(m, other) <= AssignmentWeight(m, perm)}

\* turn_into_matrix: row i has its 1 in column perm[i]
turn_into_matrix(perm) == PermutationMatrix(perm)

\* permutation.py line 19: self.gamma + gumbel_noise for one sample
AddNoise(gamma, gumbel_noise) ==
    [i \in DOMAIN gamma |-> [k \in DOMAIN gamma |-> gamma[i][k] + gumbel_noise[i][k]]]

\* permutation.py lines 16-21: what one sample can be, over the noise draws
HardPermutations(gamma) ==
    {turn_into_matrix(perm) :
        perm \in UNION {hungarian(AddNoise(gamma, gumbel_noise)) :
                           gumbel_noise \in sample_gumbel_noise(Len(gamma))}}

\* permutation.py lines 9-13: a module whose gamma has been drawn
PermutationModuleInit ==
    /\ IdleCallback
    /\ IdleTrainer
    /\ IdleExplorability
    /\ hist = NoHistory
    /\ call \in [fn : {"PermutationLearningModule.__init__"},
                  gamma : Matrices(MaxFeatures, GammaEntries)]

\* permutation.py lines 15-23: the noise of every sample is drawn on its own
sample_hard_permutations(num_samples) ==
    /\ call.fn # "none"
    /\ \E ret \in [1..num_samples -> HardPermutations(call.gamma)] :
          call' = [fn |-> "sample_hard_permutations", gamma |-> call.gamma,
                   num_samples |-> num_samples, ret |-> ret]

SamplerNext ==
    \E num_samples \in 0..MaxSamples :
        sample_hard_permutations(num_samples) /\ UNCHANGED <<pcVars, trVars, exVars, hist>>

SamplerSpec == PermutationModuleInit /\ [][SamplerNext]_vars

\* ------------------------------------------------------------ SCM.simulate
\* the number of nodes an intervention is made on
MaxInterventions == 1

\* the parents dictionary that lists, for each node, the sources of its edges
ParentsOf(nodes, edges) == [v \in nodes |-> {u \in nodes : <<u, v>> \in edges}]

\* the node is computed whether or not its parents have values
ComputeNode_Unchecked(scm, args, vals, v, ct) ==
    [raised |-> "none",
     vals |-> [vals EXCEPT ![v] =
                  [func |-> IF v \in args.intervention_nodes
                            THEN "intervention_function"
                            ELSE "get_covariate_from_parents",
                   parent_values |-> scm.parents[v],
                   visit |-> ct]]]

\* lines 122-132 for the node v, visited as number ct: the values of the nodes
\* after it, or the exception of line 130
ComputeNode(scm, args, vals, v, ct) ==
    IF \E u \in scm.parents[v] : vals[u].func = "None"
    THEN [raised |-> "Exception", vals |-> vals]
    ELSE [raised |-> "none",
          vals |-> [vals EXCEPT ![v] =
                       [func |-> IF v \in args.intervention_nodes
                                 THEN "intervention_function"
                                 ELSE "get_covariate_from_parents",
                        parent_values |-> scm.parents[v],
                        visit |-> ct]]]

\* lines 106-132: the loop from the ct-th node of the topological order on
RECURSIVE SimulateFrom(_, _, _, _)
SimulateFrom(scm, args, vals, ct) ==
    IF ct > Len(scm.topological_order)
    THEN [raised |-> "none", samples |-> vals, visited |-> ct - 1]
    ELSE LET v == scm.topological_order[ct]
         IN  IF v \in args.short_noise
             THEN [raised |-> "Exception", samples |-> "None", visited |-> ct]
             ELSE LET node == ComputeNode(scm, args, vals, v, ct)
                  IN  IF node.raised # "none"
                      THEN [raised |-> node.raised, samples |-> "None", visited |-> ct]
                      ELSE SimulateFrom(scm, args, node.vals, ct + 1)

\* lines 94-135; get_exogenous_noise returns a wrong number of rows for the
\* nodes of short_noise
simulate(scm, args) ==
    SimulateFrom(scm, args,
                 [x \in scm.dag.nodes |-> [func |-> "None", parent_values |-> {}, visit |-> 0]],
                 1)

\* an SCM whose parents dictionary need not be the one of its graph, and the
\* arguments of one call of simulate
SimulateInit ==
    /\ IdleCallback
    /\ IdleTrainer
    /\ IdleExplorability
    /\ hist = NoHistory
    /\ \E dag \in Dags(MaxNodes) :
          call \in [fn : {"SCM.__init__"},
                    scm : [dag : {dag},
                           topological_order : TopologicalOrders(dag),
                           parents : {ParentsOf(dag.nodes, g.edges) : g \in Dags(MaxNodes)}],
                    args : [intervention_nodes :
                                {S \in SUBSET dag.nodes : Cardinality(S) <= MaxInterventions},
                            short_noise : SUBSET dag.nodes]]

SCMSimulate ==
    /\ call.fn = "SCM.__init__"
    /\ call' = [fn |-> "simulate", scm |-> call.scm, args |-> call.args,
                ret |-> simulate(call.scm, call.args)]

SimulateNext == SCMSimulate /\ UNCHANGED <<pcVars, trVars, exVars, hist>>

SimulateSpec == SimulateInit /\ [][SimulateNext]_vars

\* =============================================== MaskedAffineFlowTransform
\* Numbers are exact rationals; scales are measured in units of ln 2, so that
\* exp(s) is 2 ** s for an integer s.
RAdd(x, y) == Rat(x.num * y.den + y.num * x.den, x.den * y.den)
RSub(x, y) == Rat(x.num * y.den - y.num * x.den, x.den * y.den)

RECURSIVE Pow2(_)
Pow2(n) == IF n = 0 THEN 1 ELSE 2 * Pow2(n - 1)

\* x * exp(s)
TimesExp(x, s) ==
    IF s >= 0 THEN Rat(x.num * Pow2(s), x.den) ELSE Rat(x.num, x.den * Pow2(-s))

Sign(x) == IF x.num > 0 THEN 1 ELSE IF x.num < 0 THEN -1 ELSE 0

\* the sum of f over the finite set S
RECURSIVE RSum(_, _)
RSum(f, S) ==
    IF S = {} THEN Rat(0, 1)
    ELSE LET j == CHOOSE x \in S : TRUE IN RAdd(f[j], RSum(f, S \ {j}))

\* the mask with the diagonal: an output also reads its own input
Connected_WithSelf(perm, j, i) == Position(perm, j - 1) <= Position(perm, i - 1)

\* the mask of MaskedMLP with auto_connection = False under the ordering perm:
\* output i reads input j only if j stands strictly before i
Connected(perm, j, i) == Position(perm, j - 1) < Position(perm, i - 1)

\* self.made(inputs, perm_mat): a masked network with a shift that adds a bias
\* to the inputs it reads and a scale that adds their signs to a bias; the
\* affine variant interleaves scale and shift (lines 29-31)
made(net, inputs) ==
    LET d == Len(inputs)
        reads(i) == {j \in 1..d : Connected(net.perm, j, i)}
        shift(i) == RAdd(Rat(net.shift_bias, 1), RSum(inputs, reads(i)))
        scale(i) == Rat(net.scale_bias[i] + RSum([j \in 1..d |-> Rat(Sign(inputs[j]), 1)],
                                                 reads(i)).num, 1)
    IN  IF net.additive
        THEN [i \in 1..d |-> shift(i)]
        ELSE [k \in 1..(2 * d) |->
                 IF k % 2 = 1 THEN scale((k + 1) \div 2) ELSE shift(k \div 2)]

\* lines 116-125
split_scale_and_shift(net, ar_params) ==
    IF net.additive
    THEN [s |-> [i \in DOMAIN ar_params |-> Rat(0, 1)], t |-> ar_params]
    ELSE [s |-> [i \in 1..(Len(ar_params) \div 2) |-> ar_params[2 * i - 1]],
          t |-> [i \in 1..(Len(ar_params) \div 2) |-> ar_params[2 * i]]]

\* torch.sum(s, dim=-1)
SumOfScales(st) == RSum(st.s, DOMAIN st.s).num

\* lines 66-76
forward(net, inputs) ==
    LET st == split_scale_and_shift(net, made(net, inputs))
    IN  [outputs |-> [i \in DOMAIN inputs |->
                         RSub(TimesExp(inputs[i], -st.s[i].num),
                              TimesExp(st.t[i], -st.s[i].num))],
         logabsdet |-> -SumOfScales(st),
         evaluations |-> 1,
         passes |-> <<>>]

\* lines 101-110, one pass of the loop
InversePass(net, z, outputs) ==
    LET st == split_scale_and_shift(net, made(net, outputs))
    IN  [outputs |-> [i \in DOMAIN z |-> RAdd(TimesExp(z[i], st.s[i].num), st.t[i])],
         logabsdet |-> SumOfScales(st)]

\* lines 98-110: the n remaining passes of the loop, each appended to the
\* outputs and logabsdet of the passes made so far
RECURSIVE InversePasses(_, _, _, _)
InversePasses(net, z, passes, n) ==
    IF n = 0 THEN passes
    ELSE InversePasses(net, z,
                       Append(passes,
                              InversePass(net, z,
                                          IF passes = <<>>
                                          THEN [i \in DOMAIN z |-> Rat(0, 1)]
                                          ELSE passes[Len(passes)].outputs)),
                       n - 1)

\* lines 96-112
inverse(net, inputs) ==
    LET passes == InversePasses(net, inputs, <<>>, Len(inputs))
    IN  [outputs |-> passes[Len(passes)].outputs,
         logabsdet |-> passes[Len(passes)].logabsdet,
         evaluations |-> Len(passes),
         passes |-> [k \in DOMAIN passes |-> passes[k].outputs]]

\* the transforms over the orderings of MaxNodes dimensions; the additive one
\* has no scale
FlowNets ==
    [additive : {FALSE}, perm : Orderings(MaxNodes),
     scale_bias : [1..MaxNodes -> {0, 1}], shift_bias : {0, 1}]
    \cup [additive : {TRUE}, perm : Orderings(MaxNodes),
          scale_bias : [1..MaxNodes -> {0}], shift_bias : {0, 1}]

\* a transform and a tensor to hand to it
FlowInit ==
    /\ IdleCallback
    /\ IdleTrainer
    /\ IdleExplorability
    /\ hist = NoHistory
    /\ call \in [fn : {"MaskedAffineFlowTransform.__init__"}, net : FlowNets,
                  inputs : [1..MaxNodes -> {Rat(x, 1) : x \in {-1, 0, 1}}]]

FlowForward ==
    /\ call.fn = "MaskedAffineFlowTransform.__init__"
    /\ call' = [fn |-> "forward", net |-> call.net, inputs |-> call.inputs,
                ret |-> forward(call.net, call.inputs)]

FlowInverse ==
    /\ call.fn = "MaskedAffineFlowTransform.__init__"
    /\ call' = [fn |-> "inverse", net |-> call.net, inputs |-> call.inputs,
                ret |-> inverse(call.net, call.inputs)]

FlowNext ==
    \/ FlowForward /\ UNCHANGED <<pcVars, trVars, exVars, hist>>
    \/ FlowInverse /\ UNCHANGED <<pcVars, trVars, exVars, hist>>

FlowSpec == FlowInit /\ [][FlowNext]_vars

\* ==================================================== ExplorabilityCallback
\* the largest log_every_n_epochs
MaxLogEvery == 2

\* the model logs the permutations it samples during the current epoch
LogPermutations ==
    /\ stage = "fitting"
    /\ explorability_error = "none"
    /\ current_epoch \notin logged_permutations
    /\ logged_permutations' = logged_permutations \cup {current_epoch}
    /\ logged_this_phase' = logged_this_phase \cup {current_epoch}
    /\ UNCHANGED <<xcfg, last_saved_phase, log_every_n_epochs_counter, image,
                   explorability_error, current_epoch, logged_ended_phase>>

\* check_should_log answering on the first call of every n instead of the last
check_should_log_FirstOfN(phase) ==
    IF ~xcfg.log_on_phase_change
    THEN IF xcfg.log_every_n_epochs = 0
         THEN [raised |-> "ZeroDivisionError", ret |-> FALSE,
               last_saved_phase |-> last_saved_phase,
               counter |-> log_every_n_epochs_counter]
         ELSE [raised |-> "none",
               ret |-> log_every_n_epochs_counter = 0,
               last_saved_phase |-> last_saved_phase,
               counter |-> (log_every_n_epochs_counter + 1) % xcfg.log_every_n_epochs]
    ELSE IF phase = last_saved_phase
    THEN [raised |-> "none", ret |-> FALSE, last_saved_phase |-> last_saved_phase,
          counter |-> log_every_n_epochs_counter]
    ELSE [raised |-> "none", ret |-> last_saved_phase # "None", last_saved_phase |-> phase,
          counter |-> log_every_n_epochs_counter]

\* lines 72-92: what check_should_log returns and leaves behind when
\* pl_module.get_phase() is phase
check_should_log(phase) ==
    IF ~xcfg.log_on_phase_change
    THEN IF xcfg.log_every_n_epochs = 0
         THEN [raised |-> "ZeroDivisionError", ret |-> FALSE,
               last_saved_phase |-> last_saved_phase,
               counter |-> log_every_n_epochs_counter]
         ELSE [raised |-> "none",
               ret |-> log_every_n_epochs_counter = xcfg.log_every_n_epochs - 1,
               last_saved_phase |-> last_saved_phase,
               counter |-> (log_every_n_epochs_counter + 1) % xcfg.log_every_n_epochs]
    ELSE IF phase = last_saved_phase
    THEN [raised |-> "none", ret |-> FALSE, last_saved_phase |-> last_saved_phase,
          counter |-> log_every_n_epochs_counter]
    ELSE [raised |-> "none", ret |-> last_saved_phase # "None", last_saved_phase |-> phase,
          counter |-> log_every_n_epochs_counter]

\* lines 94-136, when pl_module.get_phase() is phase; ended is remembered with
\* the image: the epochs logged in the phase before the one the callback sees
ExplorabilityEpochEnd(phase, ended) ==
    /\ explorability_error = "none"
    /\ \E check \in {check_should_log(phase)} :
          /\ logged_permutations' = {}
          /\ last_saved_phase' = check.last_saved_phase
          /\ log_every_n_epochs_counter' = check.counter
          /\ explorability_error' = check.raised
          /\ image' = IF check.ret
                       THEN [made |-> TRUE, permutations |-> logged_permutations,
                             phase |-> phase, epoch |-> current_epoch,
                             ended_phase |-> ended]
                       ELSE image
    /\ UNCHANGED xcfg

\* the epoch is over for the trainer and for what the properties remember
EpochOver ==
    /\ current_epoch < MaxEpochs
    /\ current_epoch' = current_epoch + 1
    /\ logged_this_phase' = IF current_phase' # current_phase THEN {} ELSE logged_this_phase
    /\ logged_ended_phase' =
          IF current_phase' # current_phase THEN logged_this_phase ELSE logged_ended_phase

\* the end of an epoch when the phase changer stands before the explorability
\* callback in the list of callbacks
PhaseChangerThenExplorability ==
    /\ on_train_epoch_end
    /\ EpochOver
    /\ ExplorabilityEpochEnd(current_phase', logged_ended_phase')

\* the end of an epoch when the explorability callback stands first
ExplorabilityThenPhaseChanger ==
    /\ check_should_log(current_phase).raised = "none"
    /\ ExplorabilityEpochEnd(current_phase, logged_ended_phase)
    /\ on_train_epoch_end
    /\ EpochOver

\* the explorability callback stands first and raises: the phase changer is
\* not called
ExplorabilityRaises ==
    /\ stage = "fitting"
    /\ check_should_log(current_phase).raised # "none"
    /\ ExplorabilityEpochEnd(current_phase, logged_ended_phase)
    /\ UNCHANGED <<pcVars, current_epoch, logged_this_phase, logged_ended_phase>>

ExplorabilityConfigs ==
    [log_on_phase_change : BOOLEAN, log_every_n_epochs : 0..MaxLogEvery]

\* The two callbacks on one training module, the phase changing on the epoch
\* limits alone.
ExplorabilitySpecInit ==
    /\ PhaseChangerInit(Configs(EpochSettings({TRUE}, {FALSE}), LossConvergenceOff,
                                GeneralizationOff))
    /\ IdleTrainer
    /\ call = NoCall
    /\ ExplorabilityInit(ExplorabilityConfigs)
    /\ hist = NoHistory

ExplorabilityNext ==
    \/ on_fit_start /\ UNCHANGED <<trVars, fnVars, exVars, hist>>
    \/ LogPermutations /\ UNCHANGED <<pcVars, trVars, fnVars, hist>>
    \/ PhaseChangerThenExplorability /\ UNCHANGED <<trVars, fnVars, hist>>
    \/ ExplorabilityThenPhaseChanger /\ UNCHANGED <<trVars, fnVars, hist>>
    \/ ExplorabilityRaises /\ UNCHANGED <<trVars, fnVars, hist>>

ExplorabilitySpec == ExplorabilitySpecInit /\ [][ExplorabilityNext]_vars

\* check_should_log called again and again on one callback, the module being in
\* any phase at each call; the call remembers its number, the phase it saw and
\* the phase the call before it saw.
ShouldLogInit ==
    /\ IdleCallback
    /\ IdleTrainer
    /\ call = NoCall
    /\ ExplorabilityInit(ExplorabilityConfigs)
    /\ hist = NoHistory

CallCheckShouldLog(phase) ==
    /\ explorability_error = "none"
    /\ call.fn = "check_should_log" => call.calls < MaxChecks
    /\ \E check \in {check_should_log(phase)} :
          /\ last_saved_phase' = check.last_saved_phase
          /\ log_every_n_epochs_counter' = check.counter
          /\ explorability_error' = check.raised
          /\ call' = [fn |-> "check_should_log",
                      calls |-> IF call.fn = "check_should_log" THEN call.calls + 1 ELSE 1,
                      phase |-> phase,
                      previous |-> IF call.fn = "check_should_log" THEN call.phase ELSE "None",
                      raised |-> check.raised,
                      ret |-> check.ret]
    /\ UNCHANGED <<xcfg, logged_permutations, image, current_epoch, logged_this_phase,
                   logged_ended_phase>>

ShouldLogNext ==
    \E phase \in Phases : CallCheckShouldLog(phase) /\ UNCHANGED <<pcVars, trVars, hist>>

ShouldLogSpec == ShouldLogInit /\ [][ShouldLogNext]_vars

\* ================================================================= claims
\* C1: on_fit_start sets current_phase to the configured starting_phase; once
\* fitting has started current_phase is always "maximization" or "expectation";
\* and every call of change_phase flips it to the other value.
C1_PhaseIsFlipped ==
    [][/\ (stage = "constructed" /\ stage' # "constructed")
              => current_phase' = cfg.starting_phase
       /\ stage' # "constructed" => current_phase' \in Phases
       /\ trigger' # "none" => /\ current_phase' # current_phase
                               /\ {current_phase, current_phase'} = Phases]_vars

\* change_phase has run twice or more and has just returned to the starting phase
C1_Witness ==
    /\ trigger # "none"
    /\ current_phase = cfg.starting_phase

\* the phase the epoch limits alone prescribe after n training epochs
ScheduledPhase(n) ==
    LET first == IF cfg.starting_phase = "maximization"
                 THEN cfg.maximization_epoch_limit ELSE cfg.expectation_epoch_limit
        period == cfg.maximization_epoch_limit + cfg.expectation_epoch_limit
    IN  IF n % period < first THEN cfg.starting_phase
        ELSE CHOOSE p \in Phases : p # cfg.starting_phase

\* C2: with both early-stopping triggers disabled a phase P lasts exactly
\* limit(P) training epochs: after n epoch ends the phase is the one of the
\* periodic schedule with period maximization_epoch_limit +
\* expectation_epoch_limit, so it changes at the end of the limit(P)-th
\* consecutive epoch in P and at no earlier epoch end.
C2_EpochSchedule ==
    stage = "fitting" => current_phase = ScheduledPhase(hist.epochs)

\* more than one whole period has passed, with different limits for the phases
C2_Witness ==
    /\ stage = "fitting"
    /\ cfg.maximization_epoch_limit = 2
    /\ cfg.expectation_epoch_limit = 1
    /\ hist.epochs = 5
    /\ current_phase = "expectation"

\* what C3 says of a check of the training loss `loss`
C3_Rule(loss) ==
    LET running_min == running_minimum_training_loss
        eps == cfg.loss_convergence_threshold_eps
        below == running_min.inf
                 \/ loss * running_min.den < running_min.num - eps * running_min.den
    IN  /\ current_phase = "maximization"
        /\ cfg.loss_convergence_early_stopping
        /\ IF below
           THEN /\ training_loss_patience_remaining' = cfg.loss_convergence_patience
                /\ running_minimum_training_loss' = Rat(loss, 1)
                /\ current_phase' = current_phase
           ELSE IF training_loss_patience_remaining - 1 = 0
                THEN /\ current_phase' = "expectation"
                     /\ trigger' = "loss_convergence"
                ELSE /\ training_loss_patience_remaining' =
                            training_loss_patience_remaining - 1
                     /\ running_minimum_training_loss' = running_minimum_training_loss
                     /\ current_phase' = current_phase

\* C3: at every check of the training loss (maximization phase, loss-convergence
\* stopping on): a loss below running_min - eps resets the patience to its
\* baseline and becomes the running minimum; any other loss decrements the
\* patience by one, and on reaching zero the phase becomes expectation.
C3_LossConvergenceRule ==
    [][\A loss \in Losses : TrainBatchCheck(loss) => C3_Rule(loss)]_vars

\* a patience of 2 has been used up and the phase has changed
C3_Witness ==
    /\ trigger = "loss_convergence"
    /\ cfg.loss_convergence_patience = 2
    /\ current_phase = "expectation"

\* C4 as claimed: from a freshly constructed controller with patience 5, a
\* loss sequence of length 5 that never improves triggers exactly one
\* transition, at the 5th check.
C4_TransitionAtFifthCheck ==
    (hist.nondecreasing /\ hist.checks = cfg.loss_convergence_patience)
        => (hist.transitions = 1 /\ current_phase = "expectation")

\* C4 as amended: the first check after a reset always improves on the
\* infinite running minimum, so a never-improving loss sequence leaves the
\* patience at 5 after the 1st check, lowers it by one at each later check, and
\* triggers exactly one transition at the 6th check and none before.
C4_TransitionAtSixthCheck ==
    hist.nondecreasing =>
        /\ (hist.checks \in 1..cfg.loss_convergence_patience) =>
              /\ hist.transitions = 0
              /\ current_phase = "maximization"
              /\ training_loss_patience_remaining =
                     cfg.loss_convergence_patience - (hist.checks - 1)
        /\ (hist.checks = cfg.loss_convergence_patience + 1) =>
              /\ hist.transitions = 1
              /\ current_phase = "expectation"
        /\ hist.checks <= cfg.loss_convergence_patience + 1

\* six checks of a never-improving sequence have been made
C4_Witness ==
    /\ hist.nondecreasing
    /\ hist.checks = 6
    /\ cfg.loss_convergence_patience = 5
    /\ hist.transitions = 1

\* a validation batch on which the generalization check is made: it completes
\* a pass as long as the longest one seen before
ValidationCheckMade(batch_idx, last, loss) ==
    /\ ValBatchCheck(batch_idx, last, loss)
    /\ num_validation_batches = batch_idx + 1

\* the patience rule for the average validation loss validation_running_avg',
\* where `improved` says whether it counts as an improvement
C5_Rule(improved) ==
    /\ current_phase \in cfg.generalization_early_stopping
    /\ IF improved
       THEN /\ generalization_patience_remaining' = cfg.generalization_patience
            /\ running_minimum_validation_loss' =
                   Min(running_minimum_validation_loss, validation_running_avg')
            /\ current_phase' = current_phase
       ELSE IF generalization_patience_remaining - 1 = 0
            THEN /\ current_phase' # current_phase
                 /\ trigger' = "generalization"
            ELSE /\ generalization_patience_remaining' =
                        generalization_patience_remaining - 1
                 /\ running_minimum_validation_loss' = running_minimum_validation_loss
                 /\ current_phase' = current_phase

\* avg < running_min - eps
C5_BelowMinusEps ==
    LET m == running_minimum_validation_loss
        a == validation_running_avg'
        eps == cfg.generalization_threshold_eps
    IN  m.inf \/ a.num * m.den < (m.num - eps * m.den) * a.den

\* avg <= running_min + eps
C5_WithinPlusEps ==
    LET m == running_minimum_validation_loss
        a == validation_running_avg'
        eps == cfg.generalization_threshold_eps
    IN  m.inf \/ a.num * m.den <= (m.num + eps * m.den) * a.den

C6_CountersReset ==
    [][(trigger' # "none" \/ (stage = "fitting" /\ current_phase' # current_phase))
          => /\ trigger' \in {"epoch_limit", "loss_convergence", "generalization"}
             /\ epochs_on_maximization' = 0
             /\ epochs_on_expectation' = 0
             /\ training_loss_patience_remaining' = cfg.loss_convergence_patience
             /\ generalization_patience_remaining' = cfg.generalization_patience
             /\ running_minimum_training_loss' = Infinity
             /\ running_minimum_validation_loss' = Infinity]_vars

\* the loss-convergence trigger has just fired in a run that also watches the
\* validation loss of the maximization phase, and every counter is reset
C6_Witness ==
    /\ trigger = "loss_convergence"
    /\ "maximization" \in cfg.generalization_early_stopping
    /\ cfg.generalization_patience = 2
    /\ generalization_patience_remaining = 2
    /\ running_minimum_validation_loss = Infinity
    /\ num_validation_batches > 0
    /\ epochs_on_maximization = 0

\* the number of times `name` occurs in the sequence `calls`
Count(calls, name) == Cardinality({k \in DOMAIN calls : calls[k] = name})

\* C7: on every phase transition reset_optimizers() is called exactly once iff
\* the reset_optimizers flag is set (and not at all otherwise), and
\* reinitialize_flow_weights() is called iff
\* reinitialize_weights_on_maximization is set and the phase after the
\* transition is maximization; it is never called on a transition into
\* expectation, and no callback that makes no transition calls either.
C7_ModuleCalls ==
    [][/\ trigger' # "none" =>
             /\ Count(module_calls', "reset_optimizers") =
                    (IF cfg.reset_optimizers THEN 1 ELSE 0)
             /\ Count(module_calls', "reinitialize_flow_weights") =
                    (IF cfg.reinitialize_weights_on_maximization
                        /\ current_phase' = "maximization" THEN 1 ELSE 0)
             /\ current_phase' = "expectation" =>
                    Count(module_calls', "reinitialize_flow_weights") = 0
       /\ trigger' = "none" => module_calls' = <<>>]_vars

\* a transition into expectation with both flags set: the optimizers are reset
\* and the flow weights are left alone
C7_Witness ==
    /\ trigger # "none"
    /\ cfg.reset_optimizers
    /\ cfg.reinitialize_weights_on_maximization
    /\ current_phase = "expectation"
    /\ module_calls = <<"reset_optimizers">>

\* a flow-steps followed by b permutation-steps
EpochSteps(a, b) ==
    [k \in 1..(a + b) |-> IF k <= a THEN "flow" ELSE "permutation"]

C9_MutualExclusion ==
    [][/\ FlowOptimizerStep => ~gamma_requires_grad
       /\ PermOptimizerStep => (~flow_requires_grad /\ ~model_training)
       /\ (FlowStepReturn \/ PermStepReturn)
             => (gamma_requires_grad' /\ flow_requires_grad' /\ model_training')]_vars

\* both optimizers have stepped, and the last permutation-step has returned
\* with everything trainable again
C9_Witness ==
    /\ pc = "perm_loop"
    /\ perm_iter > 0
    /\ flow_step_count > 0
    /\ perm_step_count > 0
    /\ gamma_requires_grad /\ flow_requires_grad /\ model_training

\* C10 as claimed: when the loss, backward() or the optimizer step raises
\* inside flow_train_step or permutation_train_step, the exception leaves the
\* step with gamma and all flow parameters trainable again and the flow in
\* training mode.
C10_RestoredOnRaise ==
    error = "StepError" =>
        (gamma_requires_grad /\ flow_requires_grad /\ model_training)

\* backward() has raised in a permutation-step and left the flow frozen and in
\* evaluation mode
C10_Witness ==
    /\ error = "StepError"
    /\ steps_this_epoch # <<>>
    /\ steps_this_epoch[Len(steps_this_epoch)] = "permutation"
    /\ ~flow_requires_grad
    /\ ~model_training

\* C11: with 'constant' every outer epoch gets initial_temperature; with
\* 'linear' and true_epochs >= 2 the temperature of epoch e is
\* initial_temperature * (1 - e/(true_epochs - 1)): initial_temperature at
\* epoch 0, never above the temperature of the epoch before, and exactly 0 at
\* the last epoch true_epochs - 1.
C11_TemperatureSchedule ==
    [][(pc = "epoch_head" /\ pc' = "flow_loop") =>
          LET initial == tcfg.temperature
              t == temperature'
          IN  /\ tcfg.temperature_scheduler = "constant" =>
                    t = Temperature(Rat(initial, 1), Rat(0, 1))
              /\ (tcfg.temperature_scheduler = "linear" /\ true_epochs >= 2) =>
                    /\ t.defined /\ t.decades = Rat(0, 1)
                    /\ t.scale.num * (true_epochs - 1) =
                           t.scale.den * initial * (true_epochs - 1 - epoch)
                    /\ epoch = 0 => t.scale = Rat(initial, 1)
                    /\ epoch = true_epochs - 1 => t.scale = Rat(0, 1)
                    /\ temperature.defined => LessEq(t.scale, temperature.scale)]_vars

\* the middle epoch of a linear schedule over three epochs, at half the
\* initial temperature
C11_Witness ==
    /\ tcfg.temperature_scheduler = "linear"
    /\ tcfg.temperature = 1
    /\ true_epochs = 3
    /\ epoch = 1
    /\ pc = "flow_loop"
    /\ temperature = Temperature(Rat(1, 2), Rat(0, 1))

C13_ErrorEnumeratesMethods ==
    (tcfg.method \notin DOMAIN ModuleClasses /\ pc # "new") =>
        /\ pc = "raised"
        /\ call.raised # "none"
        /\ call.message_names = DOMAIN ModuleClasses
        /\ call.permutation_learning_module = "none"
        /\ call.optimizers = {}

\* the construction with an unknown method name has raised
C13_Witness ==
    /\ tcfg.method = "gumbel-sinkhorn"
    /\ pc = "raised"
    /\ error = "ValueError"
    /\ call.permutation_learning_module = "none"
    /\ call.optimizers = {}

\* the call count_backward(ordering) on the graph with the given edges
C14_Call(ordering, edges) ==
    /\ call.fn = "count_backward"
    /\ call.dag.edges = edges
    /\ call.ordering = ordering

\* C14, amended: for the ordering [0,1,2] and the edges {(0,2),(2,1)}
\* count_backward returns 1, and for the reverse ordering [2,1,0] on the same
\* edges it returns 1 as well: (0,2) is then the one reversed edge.
C14_ExampleBothOne ==
    /\ C14_Call(<<0, 1, 2>>, {<<0, 2>>, <<2, 1>>}) => call.count = 1
    /\ C14_Call(<<2, 1, 0>>, {<<0, 2>>, <<2, 1>>}) => call.count = 1

\* C14 as claimed: for the reverse ordering [2,1,0] count_backward returns a
\* value strictly larger than the 1 it returns for [0,1,2].
C14_ReverseStrictlyLarger ==
    /\ C14_Call(<<0, 1, 2>>, {<<0, 2>>, <<2, 1>>}) => call.count = 1
    /\ C14_Call(<<2, 1, 0>>, {<<0, 2>>, <<2, 1>>}) => call.count > 1

\* count_backward has been called with the reverse ordering of the example
C14_Witness == C14_Call(<<2, 1, 0>>, {<<0, 2>>, <<2, 1>>})

\* C15: count_backward returns the number of edges (u,v) whose u stands after
\* v in the ordering; the result is 0 exactly when the ordering is a
\* topological order of the graph, and the ordering the SCM reports has 0.
C15_CountsReversedEdges ==
    /\ call.fn = "count_backward" =>
          /\ call.count =
                Cardinality({e \in call.dag.edges :
                    \E i, k \in DOMAIN call.ordering :
                        /\ call.ordering[i] = e[1]
                        /\ call.ordering[k] = e[2]
                        /\ i > k})
          /\ call.count = 0 <=> call.ordering \in TopologicalOrders(call.dag)
    /\ call.fn = "ordering" => count_backward(call.ordering, call.dag) = 0

\* count_backward has counted two reversed edges in a graph of three edges
C15_Witness ==
    /\ call.fn = "count_backward"
    /\ Cardinality(call.dag.edges) = 3
    /\ call.count = 2

C17_FirstDimensions(perm, k) == {i \in DOMAIN perm : Position(perm, i - 1) <= k}

\* C17: inverse evaluates the masked network once per dimension; after pass k
\* the first k dimensions in permutation order hold their final values;
\* inverse undoes forward and forward undoes inverse; the log-determinant of
\* inverse at forward(x) is minus that of forward at x, and both are 0 in the
\* additive variant.
C17_RoundTrip ==
    /\ call.fn = "forward" =>
          /\ \E back \in {inverse(call.net, call.ret.outputs)} :
                /\ back.outputs = call.inputs
                /\ back.logabsdet = -call.ret.logabsdet
          /\ call.net.additive => call.ret.logabsdet = 0
    /\ call.fn = "inverse" =>
          /\ call.ret.evaluations = Len(call.inputs)
          /\ forward(call.net, call.ret.outputs).outputs = call.inputs
          /\ call.net.additive => call.ret.logabsdet = 0
          /\ \A k \in DOMAIN call.inputs :
                \A i \in C17_FirstDimensions(call.net.perm, k) :
                    call.ret.passes[k][i] = call.ret.outputs[i]

\* forward has run under an ordering other than the identity, with a scale
\* that is not 0 and a result that differs from its input
C17_Witness ==
    /\ call.fn = "forward"
    /\ ~call.net.additive
    /\ call.net.perm = <<2, 0, 1>>
    /\ call.ret.logabsdet # 0
    /\ call.ret.outputs # call.inputs

\* the node u is visited before the node v
C18_Before(u, v) ==
    Position(call.scm.topological_order, u) < Position(call.scm.topological_order, v)

\* the noise of some node has a wrong number of rows, or some node lists a
\* parent that is not visited before it
C18_ContractBroken ==
    \/ call.args.short_noise # {}
    \/ \E v \in call.scm.dag.nodes : \E u \in call.scm.parents[v] : ~C18_Before(u, v)

\* C18: simulate visits the nodes in topological order; it raises and returns
\* no table when the noise of some node has a wrong number of rows or a listed
\* parent of the node being computed has no value yet; otherwise every node is
\* computed after all its listed parents, by the intervention function if it
\* is intervened on and by get_covariate_from_parents if not.
C18_SimulateContract ==
    call.fn = "simulate" =>
        /\ C18_ContractBroken => call.ret.raised # "none" /\ call.ret.samples = "None"
        /\ ~C18_ContractBroken =>
              /\ call.ret.raised = "none"
              /\ call.ret.visited = Len(call.scm.topological_order)
              /\ \A v \in call.scm.dag.nodes :
                    /\ call.ret.samples[v].visit = Position(call.scm.topological_order, v)
                    /\ call.ret.samples[v].parent_values = call.scm.parents[v]
                    /\ \A u \in call.scm.parents[v] :
                          call.ret.samples[u].visit < call.ret.samples[v].visit
                    /\ call.ret.samples[v].func =
                          IF v \in call.args.intervention_nodes
                          THEN "intervention_function"
                          ELSE "get_covariate_from_parents"

\* a table has been returned for a chain with an intervention on its middle
C18_Witness ==
    /\ call.fn = "simulate"
    /\ call.scm.dag.edges = {<<2, 1>>, <<1, 0>>}
    /\ call.scm.parents = ParentsOf(0..2, {<<2, 1>>, <<1, 0>>})
    /\ call.args.intervention_nodes = {1}
    /\ call.ret.raised = "none"
    /\ call.ret.samples[1].func = "intervention_function"
    /\ call.ret.samples[0].visit = 3

\* simulate has raised at the second node, whose listed parent comes later
C18_WitnessRaise ==
    /\ call.fn = "simulate"
    /\ call.args.short_noise = {}
    /\ call.ret.raised = "Exception"
    /\ call.ret.visited = 2

\* C19 as claimed: with log_on_phase_change enabled, the image made at the
\* first epoch end after a phase change shows the permutations logged in
\* every epoch of the phase that just ended.
C19_PlotsWholePhase ==
    (xcfg.log_on_phase_change /\ image.made) =>
        image.ended_phase \subseteq image.permutations

\* an image has been made after a phase of two logged epochs, and it shows
\* the permutations of one epoch only
C19_Witness ==
    /\ xcfg.log_on_phase_change
    /\ image.made
    /\ Cardinality(image.ended_phase) = 2
    /\ Cardinality(image.permutations) = 1
    /\ image.permutations \subseteq image.ended_phase

\* C20 as claimed: a Trainer with a temperature_scheduler other than
\* 'constant', 'linear' or 'exponential' fails at construction, and the
\* temperature that train() has computed for an epoch is never None.
C20_SchedulerValidated ==
    /\ (tcfg.temperature_scheduler \notin Schedulers /\ pc # "new") =>
          (call.fn = "Trainer.__init__" /\ call.raised # "none")
    /\ (epochs_run > 0 /\ error = "none") => temperature.defined

\* a Trainer with an unknown schedule name has been constructed and trains
\* with the temperature None
C20_Witness ==
    /\ tcfg.temperature_scheduler = "cosine"
    /\ call.fn = "Trainer.__init__"
    /\ call.raised = "none"
    /\ pc = "perm_loop"
    /\ epochs_run = 2
    /\ ~temperature.defined

\* the number of permutation-steps that returned before the one returning now,
\* counted over the whole run from the batches they stepped through
C21_StepsBefore == perm_step_count \div tcfg.perm_batches - 1

C22_CheckMade == TrainBatchRaises \/ \E loss \in CoarseLosses : TrainBatchCheck(loss)

\* a training batch end that compares nothing
C22_NoCheckMade == TrainBatchSkipped \/ TrainBatchNotDue

\* C22: the training loss is compared only at training batch ends at which
\* the number of maximization-phase batches of the whole run is a multiple of
\* check_every_n_iterations, and in maximization at every such batch end; at
\* every other batch end the patience, the running minimum and the phase are
\* left unchanged.
C22_CheckEveryNthBatch ==
    [][/\ C22_CheckMade => hist'.batches % cfg.check_every_n_iterations = 0
       /\ (TrainBatchNotDue /\ hist'.batches # hist.batches) =>
             hist'.batches % cfg.check_every_n_iterations # 0
       /\ C22_NoCheckMade =>
             /\ training_loss_patience_remaining' = training_loss_patience_remaining
             /\ running_minimum_training_loss' = running_minimum_training_loss
             /\ current_phase' = current_phase]_vars

\* with a check on every second batch, the fourth maximization batch of the
\* run has been checked and has lowered the running minimum
C22_Witness ==
    /\ cfg.check_every_n_iterations = 2
    /\ hist.batches = 4
    /\ training_iteration_counter = 0
    /\ current_phase = "maximization"
    /\ epochs_on_maximization = 0
    /\ running_minimum_training_loss # Infinity

\* C23: the generalization-gap check is evaluated at most once per validation
\* pass, on the last validation batch of the pass, and the loss it compares is
\* the arithmetic mean of the batch losses of that pass only; during the first
\* validation pass observed in a generalization-enabled phase no check is made
\* and the generalization patience is not changed.
C23_CheckOncePerPass ==
    [][\A batch_idx \in 0..(MaxValBatches - 1), last \in BOOLEAN, loss \in Losses :
          ValBatchCheck(batch_idx, last, loss) =>
              /\ hist'.pass_checks <= 1
              /\ ValidationCheckMade(batch_idx, last, loss) =>
                    /\ last
                    /\ validation_running_avg'.num * (batch_idx + 1) =
                           hist'.pass_sum * validation_running_avg'.den
              /\ hist'.passes = 1 =>
                    /\ ~ValidationCheckMade(batch_idx, last, loss)
                    /\ generalization_patience_remaining' =
                           generalization_patience_remaining]_vars

\* the first pass had one batch; in the second pass the check has been made on
\* batch 0 and the pass goes on
C23_Witness ==
    /\ hist.passes = 2
    /\ hist.pass_checks = 1
    /\ num_validation_batches = 1
    /\ val_batch_idx = 1

\* C24: check_should_log, with log_on_phase_change enabled, returns False on
\* its first call and afterwards returns True exactly on the calls where the
\* module's phase differs from the phase seen at the previous call; with
\* log_on_phase_change disabled and log_every_n_epochs = n >= 1 it returns True
\* exactly on every n-th call.
C24_ShouldLog ==
    (call.fn = "check_should_log" /\ call.raised = "none") =>
        IF xcfg.log_on_phase_change
        THEN call.ret <=> (call.calls > 1 /\ call.phase # call.previous)
        ELSE xcfg.log_every_n_epochs >= 1 =>
                (call.ret <=> call.calls % xcfg.log_every_n_epochs = 0)

\* every second call is to answer, and the fourth call has answered True
C24_Witness ==
    /\ call.fn = "check_should_log"
    /\ ~xcfg.log_on_phase_change
    /\ xcfg.log_every_n_epochs = 2
    /\ call.calls = 4
    /\ call.ret

\* the phase is watched, and the third call has seen a new phase
C24_WitnessPhase ==
    /\ call.fn = "check_should_log"
    /\ xcfg.log_on_phase_change
    /\ call.calls = 3
    /\ call.phase # call.previous
    /\ call.ret

\* C25: when a check is due and the objective's latched results contain no
\* 'loss' entry, on_train_batch_end (in maximization with loss-convergence
\* stopping enabled) and on_validation_batch_end (in a generalization-enabled
\* phase) raise an exception and leave the phase, both patience counters and
\* both running minima unchanged.
C25_RaiseLeavesState ==
    [][/\ (TrainBatchRaises
           \/ \E batch_idx \in 0..(MaxValBatches - 1), last \in BOOLEAN :
                 ValBatchRaises(batch_idx, last))
          => stage' = "raised"
       /\ (stage = "fitting" /\ stage' = "raised") =>
             /\ \/ /\ cfg.loss_convergence_early_stopping
                   /\ current_phase = "maximization"
                   /\ (training_iteration_counter + 1) % cfg.check_every_n_iterations = 0
                \/ current_phase \in cfg.generalization_early_stopping
             /\ current_phase' = current_phase
             /\ training_loss_patience_remaining' = training_loss_patience_remaining
             /\ generalization_patience_remaining' = generalization_patience_remaining
             /\ running_minimum_training_loss' = running_minimum_training_loss
             /\ running_minimum_validation_loss' = running_minimum_validation_loss
             /\ trigger' = "none"]_vars

\* a callback has raised for a missing loss after earlier checks had lowered
\* both running minima and used up part of the training patience
C25_Witness ==
    /\ stage = "raised"
    /\ current_phase = "maximization"
    /\ training_loss_patience_remaining < cfg.loss_convergence_patience
    /\ running_minimum_training_loss # Infinity
    /\ running_minimum_validation_loss # Infinity

\* C26: for configured patience baselines >= 1, after every callback returns
\* the training-loss patience counter and the generalization patience counter
\* each lie between 1 and their baseline inclusive: a counter that reaches 0
\* always causes a transition that resets it within the same callback, and no
\* counter ever becomes negative.
C26_PatienceInRange ==
    /\ [](/\ training_loss_patience_remaining \in 1..cfg.loss_convergence_patience
          /\ generalization_patience_remaining \in 1..cfg.generalization_patience)
    /\ [][/\ training_loss_patience_remaining' >= training_loss_patience_remaining - 1
          /\ generalization_patience_remaining' >= generalization_patience_remaining - 1
          /\ (trigger' \in {"loss_convergence", "generalization"}) =>
                /\ current_phase' # current_phase
                /\ training_loss_patience_remaining' = cfg.loss_convergence_patience
                /\ generalization_patience_remaining' = cfg.generalization_patience
                /\ \/ training_loss_patience_remaining = 1
                   \/ generalization_patience_remaining = 1]_vars

\* the last unit of a training patience of 2 has just been used up: the phase
\* has changed and the counter is back at 2, the generalization patience of 2
\* being untouched throughout
C26_Witness ==
    /\ trigger = "loss_convergence"
    /\ cfg.loss_convergence_patience = 2
    /\ training_loss_patience_remaining = 2
    /\ cfg.generalization_patience = 2
    /\ generalization_patience_remaining = 2
    /\ num_validation_batches = 0

\* C27: when loss-convergence (or generalization) stopping changes the phase in
\* the middle of a training epoch, the end of that same epoch is counted as the
\* first epoch of the new phase; hence with an epoch limit of 1 for the new
\* phase the phase flips back at that epoch's end, giving two transitions
\* within one epoch.
C27_EpochEndCountsForNewPhase ==
    [][(on_train_epoch_end /\ hist.transitions >= 1) =>
          /\ epochs_on_maximization = 0
          /\ epochs_on_expectation = 0
          /\ IF (IF current_phase = "maximization"
                 THEN cfg.maximization_epoch_limit
                 ELSE cfg.expectation_epoch_limit) = 1
             THEN /\ current_phase' # current_phase
                  /\ trigger' = "epoch_limit"
                  /\ hist'.ended_transitions >= 2
             ELSE /\ current_phase' = current_phase
                  /\ trigger' = "none"
                  /\ hist'.ended_transitions = hist.transitions
                  /\ (IF current_phase = "maximization"
                      THEN epochs_on_maximization'
                      ELSE epochs_on_expectation') = 1]_vars

\* loss convergence has moved the run into expectation in the middle of an
\* epoch and, the expectation limit being 1, the end of that epoch has moved it
\* back: two transitions in one epoch
C27_Witness ==
    /\ cfg.loss_convergence_early_stopping
    /\ cfg.generalization_early_stopping = {}
    /\ cfg.expectation_epoch_limit = 1
    /\ cfg.maximization_epoch_limit = 2
    /\ trigger = "epoch_limit"
    /\ current_phase = "maximization"
    /\ hist.ended_transitions = 2
    /\ hist.transitions = 0

\* C28: for every configuration with flow_frequency >= 0,
\* permutation_frequency >= 0, flow_frequency + permutation_frequency >= 1,
\* max_epochs >= 0 and non-empty dataloaders, Trainer.train() runs all
\* true_epochs outer epochs to completion and terminates without raising,
\* having incremented flow_step_count once per flow batch and perm_step_count
\* once per permutation batch.  (Runs in which the loss, backward() or an
\* optimizer raises, and runs that the zero division of get_temperature ends,
\* are left aside: the property fails without them.)
C28_TrainCompletes ==
    (/\ tcfg.flow_frequency + tcfg.permutation_frequency >= 1
     /\ tcfg.flow_batches >= 1
     /\ tcfg.perm_batches >= 1
     /\ pc \in {"done", "raised"}
     /\ error \notin {"StepError", "ZeroDivisionError"}) =>
        /\ pc = "done"
        /\ error = "none"
        /\ epochs_run = true_epochs
        /\ flow_step_count = true_epochs * tcfg.flow_frequency * tcfg.flow_batches
        /\ perm_step_count = true_epochs * tcfg.permutation_frequency * tcfg.perm_batches

\* with flow_frequency = 0 and the constant schedule, the first
\* permutation-step has run over its whole dataloader and the log line after it
\* has raised
C28_Witness ==
    /\ tcfg.flow_frequency = 0
    /\ tcfg.permutation_frequency = 1
    /\ tcfg.temperature_scheduler = "constant"
    /\ tcfg.perm_batches = 2
    /\ pc = "raised"
    /\ error = "NameError"
    /\ epochs_run = 1
    /\ perm_step_count = 2

\* C29: get_temperature returns a defined finite temperature for every epoch
\* in range(true_epochs) under each of the three schedules, including when
\* max_epochs < flow_frequency + permutation_frequency so that true_epochs = 1.
C29_TemperatureDefined ==
    (/\ tcfg.temperature_scheduler \in Schedulers
     /\ tcfg.flow_frequency + tcfg.permutation_frequency >= 1
     /\ epochs_run > 0) =>
        /\ error # "ZeroDivisionError"
        /\ temperature.defined
        /\ ~temperature.scale.inf
        /\ ~temperature.decades.inf

\* the exponential schedule with max_epochs = 1 below the sum of the two
\* frequencies: the only epoch has been entered and get_temperature(0) has
\* divided by true_epochs - 1 = 0
C29_Witness ==
    /\ tcfg.temperature_scheduler = "exponential"
    /\ tcfg.max_epochs = 1
    /\ tcfg.flow_frequency = 1
    /\ tcfg.permutation_frequency = 1
    /\ true_epochs = 1
    /\ epochs_run = 1
    /\ pc = "raised"
    /\ error = "ZeroDivisionError"
    /\ ~temperature.defined

\* C30: loss-convergence stopping acts in the flow (maximization) phase only:
\* whenever the phase is expectation or loss_convergence_early_stopping is
\* disabled, on_train_batch_end leaves the phase, the training patience
\* counter, the running minimum training loss and the training iteration
\* counter unchanged, whatever the loss value.
C30_MaximizationOnly ==
    [][/\ (on_train_batch_end
           /\ (current_phase = "expectation" \/ ~cfg.loss_convergence_early_stopping))
          => /\ current_phase' = current_phase
             /\ training_loss_patience_remaining' = training_loss_patience_remaining
             /\ running_minimum_training_loss' = running_minimum_training_loss
             /\ training_iteration_counter' = training_iteration_counter
             /\ stage' = stage
             /\ trigger' = "none"
       /\ (trigger' = "loss_convergence"
           \/ training_iteration_counter' # training_iteration_counter)
          => /\ cfg.loss_convergence_early_stopping
             /\ current_phase = "maximization"]_vars

\* loss-convergence stopping is enabled, the run has moved into expectation
\* and a callback has returned there without a transition: the iteration
\* counter stands where the maximization phase left it, the patience and the
\* running minimum where the transition put them
C30_Witness ==
    /\ cfg.loss_convergence_early_stopping
    /\ cfg.generalization_early_stopping = {}
    /\ cfg.check_every_n_iterations = 2
    /\ cfg.loss_convergence_patience = 2
    /\ current_phase = "expectation"
    /\ epochs_on_expectation = 0
    /\ trigger = "none"
    /\ training_iteration_counter = 0
    /\ training_loss_patience_remaining = 2
    /\ running_minimum_training_loss = Infinity
    /\ cfg.starting_phase = "maximization"
    /\ cfg.maximization_epoch_limit = 2
    /\ epochs_on_maximization = 0
====
